---------------------------- MODULE Spec2Model ----------------------------
(***************************************************************************)
(* Model of the swisseph calculation gateways:                             *)
(*   - the flag composition utilities (packages/core/src/flags.ts),        *)
(*   - the native gateway (packages/node/src/index.ts over the N-API       *)
(*     binding),                                                           *)
(*   - the bytecode-module gateway (packages/browser/src/                  *)
(*     swisseph-browser.ts over the Emscripten module).                    *)
(* The engine itself (libswe) is an external collaborator: its outputs     *)
(* (return codes, buffer contents, error texts) are nondeterministic       *)
(* inputs of the actions.                                                  *)
(***************************************************************************)
EXTENDS Integers, Sequences, FiniteSets, TLC

VARIABLES
    \* ---- flag builders (core/flags.ts) ----
    cflags,      \* CalculationFlags.flags of the builder instance
    cadded,      \* the add(x) calls made on the builder since construction
    cpure,       \* TRUE while only add calls were made since construction
    bhist,       \* the last (at most two) add/remove calls, with the value before each
    eflags,      \* EclipseTypeFlags.flags of the eclipse-type builder instance
    eadded,      \* the add(x) calls made on the eclipse-type builder
    norm,        \* results of the last normalisation round, or NoNorm
    \* ---- native gateway (node/src/index.ts) ----
    ephemerisPathSet,  \* module variable ephemerisPathSet
    enginePath,        \* the directory last handed to binding.set_ephe_path
    implicitConfigs,   \* how often ensureEphemerisInitialized configured the path
    explicitArg,       \* argument of the most recent completed setEphemerisPath call
    \* ---- bytecode-module gateway (browser/src/swisseph-browser.ts) ----
    ready,         \* SwissEphemeris.ready
    module,        \* SwissEphemeris.module: 0 for null, 1 for a module instance
    inst,          \* the instance this.module refers to: heap, configured path,
                   \* virtual filesystem
    inits,         \* the init() calls: where each is suspended
    factoryCalls,  \* how often the module factory was invoked
    wrapCalls,     \* how often _wrapFunctions resolved the entry points
    load,          \* the loadEphemerisFiles() call: where it is suspended
    bundle,        \* what the dynamic import of the generated loader resolves to
    \* ---- domain records (core/src/implementations.ts) ----
    eclipse,       \* the eclipse record at hand
    \* ---- both gateways ----
    call         \* the most recent gateway step: what it was given and what it did

flagVars == <<cflags, cadded, cpure, bhist, eflags, eadded, norm>>

nodeVars == <<ephemerisPathSet, enginePath, implicitConfigs, explicitArg>>

browserVars == <<ready, module, inst, inits, factoryCalls, wrapCalls, load, bundle>>

vars == <<flagVars, nodeVars, browserVars, eclipse, call>>

(***************************************************************************)
(* Bounds of the model.                                                    *)
(***************************************************************************)
MaxLen == 3          \* longest list of options / run of adds on a builder
MaxInits == 2        \* init() calls made on the instance
HeapSlots == 4       \* regions the module heap can hold at once

(***************************************************************************)
(* Enum values (core/src/enums.ts).                                        *)
(***************************************************************************)
SwissEphemeris == 2
MoshierEphemeris == 4
Speed == 256
Central == 1
NonCentral == 2
Total == 4
Annular == 8
Partial == 16
AnnularTotal == 32
Penumbral == 64

\* The named options the model draws from.
CalcOptions == {SwissEphemeris, MoshierEphemeris, Speed}
EclipseOptions == {Total, Partial, Penumbral}

(***************************************************************************)
(* JavaScript bitwise operators on the non-negative 31-bit range every     *)
(* flag value lives in.                                                    *)
(***************************************************************************)
RECURSIVE BitOr(_, _)
BitOr(a, b) ==
    IF a = 0 THEN b
    ELSE IF b = 0 THEN a
    ELSE (IF a % 2 = 1 \/ b % 2 = 1 THEN 1 ELSE 0) + 2 * BitOr(a \div 2, b \div 2)

RECURSIVE BitAnd(_, _)
BitAnd(a, b) ==
    IF a = 0 \/ b = 0 THEN 0
    ELSE (IF a % 2 = 1 /\ b % 2 = 1 THEN 1 ELSE 0) + 2 * BitAnd(a \div 2, b \div 2)

\* a & ~b
RECURSIVE BitAndNot(_, _)
BitAndNot(a, b) ==
    IF a = 0 THEN 0
    ELSE (IF a % 2 = 1 /\ b % 2 = 0 THEN 1 ELSE 0) + 2 * BitAndNot(a \div 2, b \div 2)

(***************************************************************************)
(* Values handed to add/remove: a single option or an array of options.    *)
(***************************************************************************)
One(x) == [kind |-> "one", v |-> x]
Many(s) == [kind |-> "array", v |-> s]

\* flag.forEach((f) => (this.flags |= f))
RECURSIVE ForEachOr(_, _)
ForEachOr(flags, s) ==
    IF s = <<>> THEN flags ELSE ForEachOr(BitOr(flags, Head(s)), Tail(s))

\* flag.forEach((f) => (this.flags &= ~f))
RECURSIVE ForEachAndNot(_, _)
ForEachAndNot(flags, s) ==
    IF s = <<>> THEN flags ELSE ForEachAndNot(BitAndNot(flags, Head(s)), Tail(s))

(***************************************************************************)
(* class CalculationFlags: the instance is its `flags` field.              *)
(***************************************************************************)
\* A plausible slip: combining with + instead of |.
CalculationFlags_add_sum(flags, flag) ==
    IF flag.kind = "array"
    THEN ForEachOr(flags, flag.v)
    ELSE flags + flag.v

CalculationFlags_add(flags, flag) ==
    IF flag.kind = "array"
    THEN ForEachOr(flags, flag.v)
    ELSE BitOr(flags, flag.v)

CalculationFlags_remove(flags, flag) ==
    IF flag.kind = "array"
    THEN ForEachAndNot(flags, flag.v)
    ELSE BitAndNot(flags, flag.v)

CalculationFlags_has(flags, flag) == BitAnd(flags, flag) = flag

CalculationFlags_toNumber(flags) == flags

\* constructor(initialFlags?): flags = 0, then add(initialFlags) when given
CalculationFlags_new(initialFlags) == CalculationFlags_add(0, initialFlags)

\* static from(...flags)
CalculationFlags_from(s) == CalculationFlags_new(Many(s))

(***************************************************************************)
(* class EclipseTypeFlags (no remove method).                              *)
(***************************************************************************)
EclipseTypeFlags_add(flags, flag) ==
    IF flag.kind = "array"
    THEN ForEachOr(flags, flag.v)
    ELSE BitOr(flags, flag.v)

EclipseTypeFlags_has(flags, flag) == BitAnd(flags, flag) = flag

EclipseTypeFlags_toNumber(flags) == flags

EclipseTypeFlags_new(initialFlags) == EclipseTypeFlags_add(0, initialFlags)

EclipseTypeFlags_from(s) == EclipseTypeFlags_new(Many(s))

(***************************************************************************)
(* Flag inputs: number | builder | array (CalculationFlagInput,            *)
(* EclipseTypeFlagInput), as a tagged value.                               *)
(***************************************************************************)
Num(n) == [tag |-> "number", val |-> n]
Builder(b) == [tag |-> "builder", val |-> b]
Arr(s) == [tag |-> "array", val |-> s]

\* A plausible slip: the array branch forgets the spread and keeps one element.
normalizeFlags_first(input) ==
    CASE input.tag = "number" -> input.val
      [] input.tag = "builder" -> CalculationFlags_toNumber(input.val)
      [] input.tag = "array" ->
            IF input.val = <<>> THEN 0
            ELSE CalculationFlags_toNumber(CalculationFlags_from(<<Head(input.val)>>))
      [] OTHER -> input.val

normalizeFlags(input) ==
    CASE input.tag = "number" -> input.val
      [] input.tag = "builder" -> CalculationFlags_toNumber(input.val)
      [] input.tag = "array" -> CalculationFlags_toNumber(CalculationFlags_from(input.val))
      [] OTHER -> input.val

normalizeEclipseTypes(input) ==
    CASE input.tag = "number" -> input.val
      [] input.tag = "builder" -> EclipseTypeFlags_toNumber(input.val)
      [] input.tag = "array" -> EclipseTypeFlags_toNumber(EclipseTypeFlags_from(input.val))
      [] OTHER -> input.val

(***************************************************************************)
(* The raw integer a caller writes as A | B | C for a set of options.      *)
(***************************************************************************)
RECURSIVE RawOr(_)
RawOr(S) ==
    IF S = {} THEN 0
    ELSE LET x == CHOOSE y \in S : TRUE IN BitOr(x, RawOr(S \ {x}))

Range(s) == {s[i] : i \in DOMAIN s}

NoNorm == [kind |-> "none"]

Last2(s) == IF Len(s) <= 2 THEN s ELSE SubSeq(s, Len(s) - 1, Len(s))

(***************************************************************************)
(* Flag builders as a state machine.                                       *)
(***************************************************************************)
InitFlags ==
    /\ cflags = 0
    /\ cadded = <<>>
    /\ cpure = TRUE
    /\ bhist = <<>>
    /\ eflags = 0
    /\ eadded = <<>>
    /\ norm = NoNorm

\* new CalculationFlags()
NewBuilder ==
    /\ cflags' = 0
    /\ cadded' = <<>>
    /\ cpure' = TRUE
    /\ bhist' = <<>>
    /\ norm' = NoNorm
    /\ UNCHANGED <<eflags, eadded, nodeVars, browserVars, eclipse, call>>

\* builder.add(x)
BuilderAdd ==
    \E x \in CalcOptions :
        /\ cpure => Len(cadded) < MaxLen
        /\ cflags' = CalculationFlags_add(cflags, One(x))
        /\ cadded' = IF cpure THEN Append(cadded, x) ELSE cadded
        /\ bhist' = Last2(Append(bhist, [op |-> "add", x |-> x, pre |-> cflags]))
        /\ norm' = NoNorm
        /\ UNCHANGED <<cpure, eflags, eadded, nodeVars, browserVars, eclipse, call>>

\* builder.remove(x)
BuilderRemove ==
    \E x \in CalcOptions :
        /\ cflags' = CalculationFlags_remove(cflags, One(x))
        /\ cadded' = <<>>
        /\ cpure' = FALSE
        /\ bhist' = Last2(Append(bhist, [op |-> "remove", x |-> x, pre |-> cflags]))
        /\ norm' = NoNorm
        /\ UNCHANGED <<eflags, eadded, nodeVars, browserVars, eclipse, call>>

\* new EclipseTypeFlags()
NewEclipseBuilder ==
    /\ eflags' = 0
    /\ eadded' = <<>>
    /\ norm' = NoNorm
    /\ UNCHANGED <<cflags, cadded, cpure, bhist, nodeVars, browserVars, eclipse, call>>

\* eclipseBuilder.add(x)
EclipseBuilderAdd ==
    \E x \in EclipseOptions :
        /\ Len(eadded) < MaxLen
        /\ eflags' = EclipseTypeFlags_add(eflags, One(x))
        /\ eadded' = Append(eadded, x)
        /\ norm' = NoNorm
        /\ UNCHANGED <<cflags, cadded, cpure, bhist, nodeVars, browserVars, eclipse, call>>

\* The same options handed to the normalisers in their three shapes: the
\* raw OR'd integer, the list in the order of the add calls, the builder.
Normalize ==
    /\ cpure
    /\ norm = NoNorm
    /\ norm' = [kind |-> "done",
                copts |-> cadded,
                cNumber |-> normalizeFlags(Num(RawOr(Range(cadded)))),
                cArray |-> normalizeFlags(Arr(cadded)),
                cBuilder |-> normalizeFlags(Builder(cflags)),
                eopts |-> eadded,
                eNumber |-> normalizeEclipseTypes(Num(RawOr(Range(eadded)))),
                eArray |-> normalizeEclipseTypes(Arr(eadded)),
                eBuilder |-> normalizeEclipseTypes(Builder(eflags))]
    /\ UNCHANGED <<cflags, cadded, cpure, bhist, eflags, eadded, nodeVars, browserVars, eclipse, call>>

\* Values that are neither a number, a builder nor a list: a string, null,
\* a plain object.
UnrecognizedInputs ==
    {[tag |-> "string", val |-> "SEFLG_SPEED"], [tag |-> "null", val |-> "null"],
     [tag |-> "object", val |-> "{}"]}

\* Such a value handed to the normalisers: each falls through its three
\* tests to the final return, and nothing in either function throws.
NormalizeUnrecognized ==
    \E input \in UnrecognizedInputs :
        /\ norm = NoNorm
        /\ norm' = [kind |-> "unrecognized", input |-> input, outcome |-> "returned",
                    cResult |-> normalizeFlags(input),
                    eResult |-> normalizeEclipseTypes(input)]
        /\ UNCHANGED <<cflags, cadded, cpure, bhist, eflags, eadded, nodeVars, browserVars,
                       eclipse, call>>

NextFlags ==
    \/ NormalizeUnrecognized
    \/ NewBuilder
    \/ BuilderAdd
    \/ BuilderRemove
    \/ NewEclipseBuilder
    \/ EclipseBuilderAdd
    \/ Normalize


(***************************************************************************)
(* Values crossing the gateway boundary.                                   *)
(***************************************************************************)
\* Arguments of setEphemerisPath: null/undefined, a string, anything else.
Null == [t |-> "null", s |-> ""]
Str(s) == [t |-> "string", s |-> s]
NonString == [t |-> "other", s |-> ""]
NoArg == [t |-> "none", s |-> ""]

CustomPath == "/custom/ephe"
\* path.join(__dirname, '..', 'ephemeris')
getBundledEphemerisPath == "<package>/ephemeris"
UnsetPath == "<unset>"

PathArgs == {Null, Str(CustomPath), NonString}

\* CalendarType
Julian == 0
Gregorian == 1

\* What a call of the binding gives back: a value, or a thrown error.
Ok(v) == [ok |-> TRUE, v |-> v, err |-> ""]
Throw(msg) == [ok |-> FALSE, v |-> <<>>, err |-> msg]

NoResult == [kind |-> "none"]

\* One effect of a handler: e is the kind of effect (a binding call, malloc,
\* free, an engine call through ccall/cwrap, a read of the heap, fetch, a
\* virtual-filesystem operation), p the heap address it concerns (0 when
\* none), f the entry point or file it names.
Ev(e, p, f) == [e |-> e, p |-> p, f |-> f]

\* A call of the native addon.
BindingCall(f) == Ev("binding", 0, f)

\* The calendar flag an engine call is given.
Gregflag(v) == Ev("arg", v, "gregflag")

\* The flags field of a call that takes no calculation flags.
NoFlags == -1

\* The engine's outputs for one call: return code, output buffers, error text.
NoEngine == [ret |-> 0, buf |-> <<>>, buf2 |-> <<>>, serr |-> ""]
Engine(ret, buf, buf2, serr) == [ret |-> ret, buf |-> buf, buf2 |-> buf2, serr |-> serr]

\* Flag inputs of the calculations: file-backed and analytical, in the
\* accepted shapes.
FlagInputs == {Num(SwissEphemeris + Speed), Arr(<<MoshierEphemeris, Speed>>)}

\* The native gateway is also given both engine selectors at once.
NodeFlagInputs == FlagInputs \cup {Num(SwissEphemeris + MoshierEphemeris)}
EclipseTypeInputs == {Arr(<<Total, Partial>>)}

\* Engine return codes: failure, and the flags the engine actually used.
ERR == -1
RetCodes == {ERR, SwissEphemeris + Speed, MoshierEphemeris + Speed}
EclipseRetCodes == {ERR, Total}
HouseRetCodes == {ERR, 0}

\* Buffer contents, standing for doubles; every slot differs.
XXBufs == {<<11, 12, 13, 14, 15, 16>>}
TretBufs == {<<30, 31, 32, 33, 34, 35, 36, 37, 38, 39>>}
CuspBufs == {<<0, 101, 102, 103, 104, 105, 106, 107, 108, 109, 110, 111, 112>>}
AscmcBufs == {<<50, 51, 52, 53, 54, 55, 56, 57, 58, 59>>}
ErrTexts == {"illegal planet number"}
HouseSystems == {"P"}
JulianDays == {2454162}
RevjulOutputs == {<<2007, 3, 3, 12>>}
Bodies == {0}
BodyNames == {"Sun"}

(***************************************************************************)
(* The native addon (swisseph_binding.cc): each wrapper over its engine    *)
(* entry point, given the engine's outputs.                                *)
(***************************************************************************)
\* SetEphePath: index.ts always passes one argument
SetEphePath(arg) ==
    IF arg.t # "string" THEN Throw("String expected") ELSE Ok(arg.s)

Julday(jd) == Ok(jd)

Revjul(out) == Ok(out)

CalcUt(eng) ==
    IF eng.ret < 0 THEN Throw(eng.serr) ELSE Ok(<<eng.buf, eng.ret>>)

GetPlanetName(name) == Ok(name)

LunEclipseWhen(eng) ==
    IF eng.ret < 0 THEN Throw(eng.serr) ELSE Ok(<<eng.ret, eng.buf>>)

SolEclipseWhenGlob(eng) ==
    IF eng.ret < 0 THEN Throw(eng.serr) ELSE Ok(<<eng.ret, eng.buf>>)

Houses(eng) ==
    IF eng.ret < 0 THEN Throw("Failed to calculate houses") ELSE Ok(<<eng.buf, eng.buf2>>)

(***************************************************************************)
(* Domain records (core/src/results.ts, implementations.ts).               *)
(***************************************************************************)
\* A plausible slip: the calendar of the record is always the default one.
DateTimeImpl_defaultCalendar(year, month, day, hour, calendarType) ==
    [kind |-> "date", year |-> year, month |-> month, day |-> day,
     hour |-> hour, calendarType |-> Gregorian]

DateTimeImpl(year, month, day, hour, calendarType) ==
    [kind |-> "date", year |-> year, month |-> month, day |-> day,
     hour |-> hour, calendarType |-> calendarType]

LunarEclipseImpl(type, maximum, partialBegin, partialEnd, totalBegin, totalEnd, penumbralBegin, penumbralEnd) ==
    [kind |-> "lunar", type |-> type, maximum |-> maximum,
     partialBegin |-> partialBegin, partialEnd |-> partialEnd,
     totalBegin |-> totalBegin, totalEnd |-> totalEnd,
     penumbralBegin |-> penumbralBegin, penumbralEnd |-> penumbralEnd]

SolarEclipseImpl(type, maximum, partialBegin, partialEnd, centralBegin, centralEnd, centerLineBegin, centerLineEnd) ==
    [kind |-> "solar", type |-> type, maximum |-> maximum,
     partialBegin |-> partialBegin, partialEnd |-> partialEnd,
     centralBegin |-> centralBegin, centralEnd |-> centralEnd,
     centerLineBegin |-> centerLineBegin, centerLineEnd |-> centerLineEnd]

\* HousePoint indices into ascmc (0-based in the source, 1-based here)
HouseDataRecord(cusps, ascmc, houseSystem) ==
    [kind |-> "houses", cusps |-> cusps,
     ascendant |-> ascmc[1], mc |-> ascmc[2], armc |-> ascmc[3],
     vertex |-> ascmc[4], equatorialAscendant |-> ascmc[5],
     coAscendant1 |-> ascmc[6], coAscendant2 |-> ascmc[7],
     polarAscendant |-> ascmc[8], houseSystem |-> houseSystem]

(***************************************************************************)
(* Native gateway (node/src/index.ts). The gateway state is threaded       *)
(* through the helpers as a record st.                                     *)
(***************************************************************************)
NodeState ==
    [ephemerisPathSet |-> ephemerisPathSet, enginePath |-> enginePath,
     implicitConfigs |-> implicitConfigs, log |-> <<>>]

\* A plausible slip: the flag is not set after the implicit configuration.
ensureEphemerisInitialized_noMark(st, flags) ==
    LET usingMoshier == BitAnd(flags, MoshierEphemeris) # 0
    IN  IF ~st.ephemerisPathSet /\ ~usingMoshier
        THEN [st EXCEPT !.enginePath = SetEphePath(Str(getBundledEphemerisPath)).v,
                        !.log = Append(@, BindingCall("set_ephe_path")),
                        !.implicitConfigs = @ + 1]
        ELSE st

\* A plausible slip: the analytical selector is not looked at.
ensureEphemerisInitialized_ignoreMoshier(st, flags) ==
    IF ~st.ephemerisPathSet
    THEN [st EXCEPT !.enginePath = SetEphePath(Str(getBundledEphemerisPath)).v,
                    !.log = Append(@, BindingCall("set_ephe_path")),
                    !.implicitConfigs = @ + 1,
                    !.ephemerisPathSet = TRUE]
    ELSE st

ensureEphemerisInitialized(st, flags) ==
    LET usingMoshier == BitAnd(flags, MoshierEphemeris) # 0
    IN  IF ~st.ephemerisPathSet /\ ~usingMoshier
        THEN [st EXCEPT !.enginePath = SetEphePath(Str(getBundledEphemerisPath)).v,
                        !.log = Append(@, BindingCall("set_ephe_path")),
                        !.implicitConfigs = @ + 1,
                        !.ephemerisPathSet = TRUE]
        ELSE st

\* The record of a native call (again: a close() that follows a close()).
NodeCall(op, args, flags, st, eng, outcome, result, error) ==
    [gw |-> "node", op |-> op, phase |-> "call", args |-> args, flags |-> flags,
     log |-> st.log, eng |-> eng, outcome |-> outcome, result |-> result,
     error |-> error, heapBefore |-> {}, heapAfter |-> {}, faults |-> {}, again |-> FALSE]

NoCall ==
    [gw |-> "none", op |-> "none", phase |-> "call", args |-> <<>>, flags |-> NoFlags,
     log |-> <<>>, eng |-> NoEngine, outcome |-> "none", result |-> NoResult,
     error |-> "", heapBefore |-> {}, heapAfter |-> {}, faults |-> {}, again |-> FALSE]

\* What every native action does with the gateway state it ends in.
NodeCommit(st) ==
    /\ ephemerisPathSet' = st.ephemerisPathSet
    /\ enginePath' = st.enginePath
    /\ implicitConfigs' = st.implicitConfigs

\* A plausible slip: the explicit call does not mark the state configured.
setEphemerisPath_noMark(st, path) ==
    LET arg == IF path.t = "null" THEN Str(getBundledEphemerisPath) ELSE path
        r == SetEphePath(arg)
    IN  IF r.ok
        THEN [st |-> [st EXCEPT !.enginePath = r.v, !.log = Append(@, BindingCall("set_ephe_path"))],
              threw |-> FALSE, error |-> ""]
        ELSE [st |-> [st EXCEPT !.log = Append(@, BindingCall("set_ephe_path"))],
              threw |-> TRUE, error |-> r.err]

\* setEphemerisPath(path?): the state it ends in, and whether it threw
setEphemerisPath(st, path) ==
    LET arg == IF path.t = "null" THEN Str(getBundledEphemerisPath) ELSE path
        r == SetEphePath(arg)
    IN  IF r.ok
        THEN [st |-> [st EXCEPT !.enginePath = r.v, !.log = Append(@, BindingCall("set_ephe_path")),
                                !.ephemerisPathSet = TRUE],
              threw |-> FALSE, error |-> ""]
        ELSE [st |-> [st EXCEPT !.log = Append(@, BindingCall("set_ephe_path"))],
              threw |-> TRUE, error |-> r.err]

\* The position record of the native gateway.
\* A plausible slip: the request flags are echoed instead of the return code.
NodePosition_echo(xx, retFlags, normalizedFlags) ==
    [kind |-> "position", longitude |-> xx[1], latitude |-> xx[2],
     distance |-> xx[3], longitudeSpeed |-> xx[4], latitudeSpeed |-> xx[5],
     distanceSpeed |-> xx[6], flags |-> normalizedFlags]

NodePosition(xx, retFlags, normalizedFlags) ==
    [kind |-> "position", longitude |-> xx[1], latitude |-> xx[2],
     distance |-> xx[3], longitudeSpeed |-> xx[4], latitudeSpeed |-> xx[5],
     distanceSpeed |-> xx[6], flags |-> retFlags]

NodeSetEphemerisPath ==
    \E path \in PathArgs :
        LET r == setEphemerisPath(NodeState, path)
        IN  /\ NodeCommit(r.st)
            /\ explicitArg' = IF r.threw THEN explicitArg ELSE path
            /\ call' = NodeCall("setEphemerisPath", <<path>>, NoFlags, r.st, NoEngine,
                                IF r.threw THEN "threw" ELSE "returned",
                                NoResult, r.error)
            /\ UNCHANGED <<flagVars, eclipse, browserVars>>

NodeJulianDay ==
    \E date \in RevjulOutputs, cal \in {Julian, Gregorian}, jd \in JulianDays :
        LET r == Julday(jd)
            st == [NodeState EXCEPT !.log = Append(@, BindingCall("julday"))]
        IN  /\ NodeCommit(st)
            /\ call' = NodeCall("julianDay", <<date, cal>>, NoFlags, st, NoEngine, "returned",
                                [kind |-> "number", value |-> r.v], "")
            /\ UNCHANGED <<flagVars, eclipse, browserVars, explicitArg>>

\* julianDay with NaN, Infinity or -Infinity in one field: the function hands
\* every argument to binding.julday as it is, and Julday converts it with
\* Int32Value / DoubleValue and calls the engine.
NonFinite == {"NaN", "Infinity", "-Infinity"}

NodeJulianDayNonFinite ==
    \E field \in {"year", "month", "day", "hour"}, v \in NonFinite, jd \in JulianDays :
        LET r == Julday(jd)
            st == [NodeState EXCEPT !.log = Append(@, BindingCall("julday"))]
        IN  /\ NodeCommit(st)
            /\ call' = NodeCall("julianDay", <<[field |-> field, value |-> v]>>, NoFlags, st, NoEngine, "returned",
                                [kind |-> "number", value |-> r.v], "")
            /\ UNCHANGED <<flagVars, eclipse, browserVars, explicitArg>>

\* given: whether the call passes a calendar type (Gregorian when it does not)
NodeJulianDayToDate ==
    \E jd \in JulianDays, given \in BOOLEAN, cal \in {Julian, Gregorian}, out \in RevjulOutputs :
        LET calendarType == IF given THEN cal ELSE Gregorian
            result == Revjul(out).v
            st == [NodeState EXCEPT !.log = <<Gregflag(calendarType), BindingCall("revjul")>>]
        IN  /\ NodeCommit(st)
            /\ call' = NodeCall("julianDayToDate", IF given THEN <<jd, cal>> ELSE <<jd>>,
                                NoFlags, st, Engine(0, out, <<>>, ""), "returned",
                                DateTimeImpl(result[1], result[2], result[3], result[4],
                                             calendarType), "")
            /\ UNCHANGED <<flagVars, eclipse, browserVars, explicitArg>>

NodeCalculatePosition ==
    \E body \in Bodies, flags \in NodeFlagInputs, ret \in RetCodes, xx \in XXBufs, serr \in ErrTexts :
        LET normalizedFlags == normalizeFlags(flags)
            st1 == ensureEphemerisInitialized(NodeState, normalizedFlags)
            st == [st1 EXCEPT !.log = Append(@, BindingCall("calc_ut"))]
            eng == Engine(ret, xx, <<>>, serr)
            r == CalcUt(eng)
        IN  /\ NodeCommit(st)
            /\ call' = IF r.ok
                       THEN NodeCall("calculatePosition", <<body>>, normalizedFlags, st, eng,
                                     "returned", NodePosition(r.v[1], r.v[2], normalizedFlags), "")
                       ELSE NodeCall("calculatePosition", <<body>>, normalizedFlags, st, eng,
                                     "threw", NoResult, r.err)
            /\ UNCHANGED <<flagVars, eclipse, browserVars, explicitArg>>

NodeCalculateHouses ==
    \E houseSystem \in HouseSystems, ret \in HouseRetCodes, cusps \in CuspBufs, ascmc \in AscmcBufs :
        LET st == [NodeState EXCEPT !.log = Append(@, BindingCall("houses"))]
            eng == Engine(ret, cusps, ascmc, "")
            r == Houses(eng)
        IN  /\ NodeCommit(st)
            /\ call' = IF r.ok
                       THEN NodeCall("calculateHouses", <<houseSystem>>, NoFlags, st, eng, "returned",
                                     HouseDataRecord(r.v[1], r.v[2], houseSystem), "")
                       ELSE NodeCall("calculateHouses", <<houseSystem>>, NoFlags, st, eng, "threw",
                                     NoResult, r.err)
            /\ UNCHANGED <<flagVars, eclipse, browserVars, explicitArg>>

NodeFindNextLunarEclipse ==
    \E flags \in NodeFlagInputs, eclipseType \in EclipseTypeInputs, backward \in BOOLEAN,
       ret \in EclipseRetCodes, tret \in TretBufs, serr \in ErrTexts :
        LET normalizedFlags == normalizeFlags(flags)
            st1 == ensureEphemerisInitialized(NodeState, normalizedFlags)
            normalizedEclipseType == normalizeEclipseTypes(eclipseType)
            st == [st1 EXCEPT !.log = Append(@, BindingCall("lun_eclipse_when"))]
            eng == Engine(ret, tret, <<>>, serr)
            r == LunEclipseWhen(eng)
            args == <<normalizedEclipseType, IF backward THEN 1 ELSE 0>>
        IN  /\ NodeCommit(st)
            /\ call' = IF r.ok
                       THEN NodeCall("findNextLunarEclipse", args, normalizedFlags, st, eng, "returned",
                                     LunarEclipseImpl(r.v[1], r.v[2][1], r.v[2][2], r.v[2][3],
                                                      r.v[2][4], r.v[2][5], r.v[2][6], r.v[2][7]), "")
                       ELSE NodeCall("findNextLunarEclipse", args, normalizedFlags, st, eng, "threw", NoResult, r.err)
            /\ UNCHANGED <<flagVars, eclipse, browserVars, explicitArg>>

NodeFindNextSolarEclipse ==
    \E flags \in NodeFlagInputs, eclipseType \in EclipseTypeInputs, backward \in BOOLEAN,
       ret \in EclipseRetCodes, tret \in TretBufs, serr \in ErrTexts :
        LET normalizedFlags == normalizeFlags(flags)
            st1 == ensureEphemerisInitialized(NodeState, normalizedFlags)
            normalizedEclipseType == normalizeEclipseTypes(eclipseType)
            st == [st1 EXCEPT !.log = Append(@, BindingCall("sol_eclipse_when_glob"))]
            eng == Engine(ret, tret, <<>>, serr)
            r == SolEclipseWhenGlob(eng)
            args == <<normalizedEclipseType, IF backward THEN 1 ELSE 0>>
        IN  /\ NodeCommit(st)
            /\ call' = IF r.ok
                       THEN NodeCall("findNextSolarEclipse", args, normalizedFlags, st, eng, "returned",
                                     SolarEclipseImpl(r.v[1], r.v[2][1], r.v[2][2], r.v[2][3],
                                                      r.v[2][4], r.v[2][5], r.v[2][6], r.v[2][7]), "")
                       ELSE NodeCall("findNextSolarEclipse", args, normalizedFlags, st, eng, "threw", NoResult, r.err)
            /\ UNCHANGED <<flagVars, eclipse, browserVars, explicitArg>>

NodeGetCelestialBodyName ==
    \E body \in Bodies, name \in BodyNames :
        LET st == [NodeState EXCEPT !.log = Append(@, BindingCall("get_planet_name"))]
        IN  /\ NodeCommit(st)
            /\ call' = NodeCall("getCelestialBodyName", <<body>>, NoFlags, st, NoEngine, "returned",
                                [kind |-> "string", value |-> GetPlanetName(name).v], "")
            /\ UNCHANGED <<flagVars, eclipse, browserVars, explicitArg>>

\* A plausible slip: close() also puts the flag back to false.
NodeClose_reset ==
    LET st == [NodeState EXCEPT !.log = Append(@, BindingCall("close")),
                                !.ephemerisPathSet = FALSE]
    IN  /\ NodeCommit(st)
        /\ call' = [NodeCall("close", <<>>, NoFlags, st, NoEngine, "returned", NoResult, "")
                        EXCEPT !.again = call.gw = "node" /\ call.op = "close"]
        /\ UNCHANGED <<flagVars, eclipse, browserVars, explicitArg>>

\* close(): binding.close() and nothing else
NodeClose ==
    LET st == [NodeState EXCEPT !.log = Append(@, BindingCall("close"))]
    IN  /\ NodeCommit(st)
        /\ call' = [NodeCall("close", <<>>, NoFlags, st, NoEngine, "returned", NoResult, "")
                        EXCEPT !.again = call.gw = "node" /\ call.op = "close"]
        /\ UNCHANGED <<flagVars, eclipse, browserVars, explicitArg>>

InitNode ==
    /\ ephemerisPathSet = FALSE
    /\ enginePath = UnsetPath
    /\ implicitConfigs = 0
    /\ explicitArg = NoArg

NextNode ==
    \/ NodeSetEphemerisPath
    \/ NodeJulianDay
    \/ NodeJulianDayNonFinite
    \/ NodeJulianDayToDate
    \/ NodeCalculatePosition
    \/ NodeCalculateHouses
    \/ NodeFindNextLunarEclipse
    \/ NodeFindNextSolarEclipse
    \/ NodeGetCelestialBodyName
    \/ NodeClose




(***************************************************************************)
(* The Emscripten module: its heap (malloc/free over a linear memory), the *)
(* engine behind ccall/cwrap, its virtual filesystem. A handler threads    *)
(* the machine state ms through its steps:                                 *)
(*   live   the allocated regions (by address)                             *)
(*   mem    the content of each region                                     *)
(*   path   the directory the engine was configured with                   *)
(*   dir    whether /ephemeris exists in the virtual filesystem            *)
(*   files  the files written under /ephemeris                             *)
(*   log    the effects of the handler so far, in order                    *)
(*   faults what went wrong with the heap (double free, use after free)    *)
(***************************************************************************)
Addrs == 1..HeapSlots

\* Content of a region: text, numbers, or whatever was there before.
Text(t) == [k |-> "text", s |-> t, v |-> <<>>]
Nums(v) == [k |-> "nums", s |-> "", v |-> v]
Garbage == [k |-> "garbage", s |-> "", v |-> <<>>]

\* What a read of a region that is not allocated, or was never written, yields.
JunkText == "<junk>"
JunkNumber == -999

BlankModule == [live |-> {}, path |-> UnsetPath, dir |-> FALSE, files |-> {}]

\* The machine state of the module instance x at the entry of a handler.
Mach(x) ==
    [live |-> x.live, path |-> x.path, dir |-> x.dir,
     files |-> x.files, mem |-> [a \in 0..HeapSlots |-> Garbage],
     log |-> <<>>, faults |-> {}]

Min(S) == CHOOSE x \in S : \A y \in S : x <= y

\* _malloc(size): a free region, or 0 when the heap is exhausted
malloc(ms) ==
    LET free == Addrs \ ms.live
        ptr == IF free = {} THEN 0 ELSE Min(free)
    IN  [ms |-> [ms EXCEPT !.live = IF ptr = 0 THEN @ ELSE @ \cup {ptr},
                           !.mem[ptr] = Garbage,
                           !.log = Append(@, Ev("malloc", ptr, ""))],
         ptr |-> ptr]

\* allocateUTF8(str): malloc and copy the string
allocateUTF8(ms, str) ==
    LET a == malloc(ms)
    IN  [ms |-> [a.ms EXCEPT !.mem[a.ptr] = Text(str)], ptr |-> a.ptr]

\* _free(ptr)
free(ms, ptr) ==
    [ms EXCEPT !.live = @ \ {ptr},
               !.log = Append(@, Ev("free", ptr, "")),
               !.faults = IF ptr # 0 /\ ptr \notin ms.live
                          THEN @ \cup {"double free"} ELSE @]

\* Handing ptr to the engine or reading through it.
Touch(ms, ptr) ==
    IF ptr \in ms.live THEN ms ELSE [ms EXCEPT !.faults = @ \cup {"use after free"}]

\* UTF8ToString(ptr)
UTF8ToString(ms, ptr) ==
    LET c == ms.mem[ptr]
    IN  [ms |-> [Touch(ms, ptr) EXCEPT !.log = Append(@, Ev("read", ptr, "UTF8ToString"))],
         v |-> IF ptr \in ms.live /\ c.k = "text" THEN c.s ELSE JunkText]

\* getValue(ptr, type): one scalar
getValue(ms, ptr) ==
    LET c == ms.mem[ptr]
    IN  [ms |-> [Touch(ms, ptr) EXCEPT !.log = Append(@, Ev("read", ptr, "getValue"))],
         v |-> IF ptr \in ms.live /\ c.k = "nums" /\ Len(c.v) >= 1 THEN c.v[1] ELSE JunkNumber]

\* for (i = 0; i < n; i++) out[i] = getValue(ptr + i * 8, 'double')
getValues(ms, ptr, n) ==
    LET c == ms.mem[ptr]
    IN  [ms |-> [Touch(ms, ptr) EXCEPT !.log = Append(@, Ev("read", ptr, "getValue"))],
         v |-> [i \in 1..n |->
                    IF ptr \in ms.live /\ c.k = "nums" /\ Len(c.v) >= i
                    THEN c.v[i] ELSE JunkNumber]]

\* An engine entry point reached through ccall or a cwrap'd function, with
\* no pointer argument.
ccall0(ms, f) == [ms EXCEPT !.log = Append(@, Ev("ccall", 0, f))]

\* ccall with output pointers: the engine writes each content at its address
\* (outs is a sequence of <<address, content>>).
RECURSIVE WriteAll(_, _)
WriteAll(ms, outs) ==
    IF outs = <<>> THEN ms
    ELSE WriteAll([Touch(ms, Head(outs)[1]) EXCEPT !.mem[Head(outs)[1]] = Head(outs)[2]],
                  Tail(outs))

ccall(ms, f, outs) ==
    [WriteAll(ms, outs) EXCEPT !.log = Append(@, Ev("ccall", 0, f))]

\* swe_set_ephe_path_wrap(pathPtr): the engine copies the string at pathPtr
ccall_set_ephe_path(ms, pathPtr) ==
    LET c == ms.mem[pathPtr]
    IN  [Touch(ms, pathPtr) EXCEPT
            !.path = IF pathPtr \in ms.live /\ c.k = "text" THEN c.s ELSE JunkText,
            !.log = Append(@, Ev("ccall", 0, "swe_set_ephe_path_wrap"))]

\* What a handler hands back: the machine state it ends in and its outcome.
Done(ms, outcome, result, error) ==
    [ms |-> ms, outcome |-> outcome, result |-> result, error |-> error]

NotInitialized == "SwissEphemeris not initialized. Call await swe.init() first."
NullModule == "TypeError: this.module is null"

\* _checkReady(): TRUE when it throws
\* A plausible slip: the guard is left out.
checkReady_skip(rdy) == FALSE

\* A plausible slip: the guard lets a call through once init() has been
\* called, whether or not it has succeeded.
checkReady_onceCalled(rdy) == ~rdy /\ \A i \in DOMAIN inits : inits[i] = "idle"

checkReady(rdy) == ~rdy

(***************************************************************************)
(* The handlers of class SwissEphemeris, after their _checkReady guard.    *)
(***************************************************************************)
SwissEphemeris_version(ms) ==
    Done(ccall0(ms, "swe_version_wrap"), "returned", [kind |-> "string", value |-> "2.10"], "")

SwissEphemeris_setEphemerisPath(ms, path) ==
    LET a == allocateUTF8(ms, path)
        pathPtr == a.ptr
        m1 == ccall_set_ephe_path(a.ms, pathPtr)
        m2 == free(m1, pathPtr)
    IN  Done(m2, "returned", NoResult, "")

\* setEphemerisPath on the path where m.ccall throws (the engine traps):
\* the exception leaves the method at the call, nothing catches it.
EngineTrap == "RuntimeError: unreachable"

SwissEphemeris_setEphemerisPath_trapped(ms, path) ==
    LET a == allocateUTF8(ms, path)
        m1 == [a.ms EXCEPT !.log = Append(@, Ev("ccall", 0, "swe_set_ephe_path_wrap"))]
    IN  Done(m1, "threw", NoResult, EngineTrap)

SwissEphemeris_julianDay(ms, jd) ==
    Done(ccall0(ms, "swe_julday_wrap"), "returned", [kind |-> "number", value |-> jd], "")

\* A plausible slip: hourPtr is not freed.
SwissEphemeris_julianDayToDate_leak(ms, calendarType, out) ==
    LET a1 == malloc(ms)
        a2 == malloc(a1.ms)
        a3 == malloc(a2.ms)
        a4 == malloc(a3.ms)
        yearPtr == a1.ptr
        monthPtr == a2.ptr
        dayPtr == a3.ptr
        hourPtr == a4.ptr
        m1 == ccall([a4.ms EXCEPT !.log = Append(@, Gregflag(calendarType))], "swe_revjul_wrap",
                    << <<yearPtr, Nums(<<out[1]>>)>>, <<monthPtr, Nums(<<out[2]>>)>>,
                       <<dayPtr, Nums(<<out[3]>>)>>, <<hourPtr, Nums(<<out[4]>>)>> >>)
        year == getValue(m1, yearPtr)
        month == getValue(year.ms, monthPtr)
        day == getValue(month.ms, dayPtr)
        hour == getValue(day.ms, hourPtr)
        m2 == free(free(free(hour.ms, yearPtr), monthPtr), dayPtr)
    IN  Done(m2, "returned", DateTimeImpl(year.v, month.v, day.v, hour.v, calendarType), "")

SwissEphemeris_julianDayToDate(ms, calendarType, out) ==
    LET a1 == malloc(ms)
        a2 == malloc(a1.ms)
        a3 == malloc(a2.ms)
        a4 == malloc(a3.ms)
        yearPtr == a1.ptr
        monthPtr == a2.ptr
        dayPtr == a3.ptr
        hourPtr == a4.ptr
        m1 == ccall([a4.ms EXCEPT !.log = Append(@, Gregflag(calendarType))], "swe_revjul_wrap",
                    << <<yearPtr, Nums(<<out[1]>>)>>, <<monthPtr, Nums(<<out[2]>>)>>,
                       <<dayPtr, Nums(<<out[3]>>)>>, <<hourPtr, Nums(<<out[4]>>)>> >>)
        year == getValue(m1, yearPtr)
        month == getValue(year.ms, monthPtr)
        day == getValue(month.ms, dayPtr)
        hour == getValue(day.ms, hourPtr)
        m2 == free(free(free(free(hour.ms, yearPtr), monthPtr), dayPtr), hourPtr)
    IN  Done(m2, "returned", DateTimeImpl(year.v, month.v, day.v, hour.v, calendarType), "")

\* julianDayToDate on the path where m.ccall throws.
SwissEphemeris_julianDayToDate_trapped(ms) ==
    LET a1 == malloc(ms)
        a2 == malloc(a1.ms)
        a3 == malloc(a2.ms)
        a4 == malloc(a3.ms)
        m1 == [a4.ms EXCEPT !.log = Append(@, Ev("ccall", 0, "swe_revjul_wrap"))]
    IN  Done(m1, "threw", NoResult, EngineTrap)

\* The position record of the bytecode-module gateway.
BrowserPosition(xx, retflag) ==
    [kind |-> "position", longitude |-> xx[1], latitude |-> xx[2],
     distance |-> xx[3], longitudeSpeed |-> xx[4], latitudeSpeed |-> xx[5],
     distanceSpeed |-> xx[6], flags |-> retflag]

\* A plausible slip: the error path frees only the result buffer.
SwissEphemeris_calculatePosition_leak(ms, eng) ==
    LET a1 == malloc(ms)
        a2 == malloc(a1.ms)
        xxPtr == a1.ptr
        serrPtr == a2.ptr
        m1 == ccall(a2.ms, "swe_calc_ut_wrap",
                    << <<xxPtr, Nums(eng.buf)>>, <<serrPtr, Text(eng.serr)>> >>)
        retflag == eng.ret
    IN  IF retflag < 0
        THEN LET error == UTF8ToString(m1, serrPtr)
             IN  Done(free(error.ms, xxPtr), "threw", NoResult, error.v)
        ELSE LET xx == getValues(m1, xxPtr, 6)
             IN  Done(free(free(xx.ms, xxPtr), serrPtr), "returned",
                      BrowserPosition(xx.v, retflag), "")

SwissEphemeris_calculatePosition(ms, eng) ==
    LET a1 == malloc(ms)
        a2 == malloc(a1.ms)
        xxPtr == a1.ptr
        serrPtr == a2.ptr
        m1 == ccall(a2.ms, "swe_calc_ut_wrap",
                    << <<xxPtr, Nums(eng.buf)>>, <<serrPtr, Text(eng.serr)>> >>)
        retflag == eng.ret
    IN  IF retflag < 0
        THEN LET error == UTF8ToString(m1, serrPtr)
             IN  Done(free(free(error.ms, xxPtr), serrPtr), "threw", NoResult, error.v)
        ELSE LET xx == getValues(m1, xxPtr, 6)
             IN  Done(free(free(xx.ms, xxPtr), serrPtr), "returned",
                      BrowserPosition(xx.v, retflag), "")

SwissEphemeris_getCelestialBodyName(ms, name) ==
    Done(ccall0(ms, "swe_get_planet_name_wrap"), "returned",
         [kind |-> "string", value |-> name], "")

SwissEphemeris_findNextLunarEclipse(ms, eng) ==
    LET a1 == malloc(ms)
        a2 == malloc(a1.ms)
        tretPtr == a1.ptr
        serrPtr == a2.ptr
        m1 == ccall(a2.ms, "swe_lun_eclipse_when_wrap",
                    << <<tretPtr, Nums(eng.buf)>>, <<serrPtr, Text(eng.serr)>> >>)
        retflag == eng.ret
    IN  IF retflag < 0
        THEN LET error == UTF8ToString(m1, serrPtr)
             IN  Done(free(free(error.ms, tretPtr), serrPtr), "threw", NoResult, error.v)
        ELSE LET tret == getValues(m1, tretPtr, 10)
             IN  Done(free(free(tret.ms, tretPtr), serrPtr), "returned",
                      LunarEclipseImpl(retflag, tret.v[1], tret.v[2], tret.v[3], tret.v[4],
                                       tret.v[5], tret.v[6], tret.v[7]), "")

SwissEphemeris_findNextSolarEclipse(ms, eng) ==
    LET a1 == malloc(ms)
        a2 == malloc(a1.ms)
        tretPtr == a1.ptr
        serrPtr == a2.ptr
        m1 == ccall(a2.ms, "swe_sol_eclipse_when_glob_wrap",
                    << <<tretPtr, Nums(eng.buf)>>, <<serrPtr, Text(eng.serr)>> >>)
        retflag == eng.ret
    IN  IF retflag < 0
        THEN LET error == UTF8ToString(m1, serrPtr)
             IN  Done(free(free(error.ms, tretPtr), serrPtr), "threw", NoResult, error.v)
        ELSE LET tret == getValues(m1, tretPtr, 10)
             IN  Done(free(free(tret.ms, tretPtr), serrPtr), "returned",
                      SolarEclipseImpl(retflag, tret.v[1], tret.v[2], tret.v[3], tret.v[4],
                                       tret.v[5], tret.v[6], tret.v[7]), "")

\* A plausible slip: the two regions are freed before the values are read.
SwissEphemeris_calculateHouses_freeFirst(ms, houseSystem, eng) ==
    LET a1 == malloc(ms)
        a2 == malloc(a1.ms)
        cuspsPtr == a1.ptr
        ascmcPtr == a2.ptr
        m1 == ccall(a2.ms, "swe_houses_wrap",
                    << <<cuspsPtr, Nums(eng.buf)>>, <<ascmcPtr, Nums(eng.buf2)>> >>)
        m2 == free(free(m1, cuspsPtr), ascmcPtr)
        cusps == getValues(m2, cuspsPtr, 13)
        ascmc == getValues(cusps.ms, ascmcPtr, 10)
    IN  Done(ascmc.ms, "returned", HouseDataRecord(cusps.v, ascmc.v, houseSystem), "")

\* The return code of swe_houses_wrap is not looked at.
SwissEphemeris_calculateHouses(ms, houseSystem, eng) ==
    LET a1 == malloc(ms)
        a2 == malloc(a1.ms)
        cuspsPtr == a1.ptr
        ascmcPtr == a2.ptr
        m1 == ccall(a2.ms, "swe_houses_wrap",
                    << <<cuspsPtr, Nums(eng.buf)>>, <<ascmcPtr, Nums(eng.buf2)>> >>)
        cusps == getValues(m1, cuspsPtr, 13)
        ascmc == getValues(cusps.ms, ascmcPtr, 10)
        m2 == free(free(ascmc.ms, cuspsPtr), ascmcPtr)
    IN  Done(m2, "returned", HouseDataRecord(cusps.v, ascmc.v, houseSystem), "")

\* A plausible slip: close() without the test of this.ready calls into a
\* module that is still null.
SwissEphemeris_close_unguarded(ms, rdy) ==
    IF rdy
    THEN Done(ccall0(ms, "swe_close_wrap"), "returned", NoResult, "")
    ELSE Done(ms, "threw", NoResult, NullModule)

\* close(): the engine is called only when ready
SwissEphemeris_close(ms, rdy) ==
    IF rdy
    THEN Done(ccall0(ms, "swe_close_wrap"), "returned", NoResult, "")
    ELSE Done(ms, "returned", NoResult, "")

(***************************************************************************)
(* Bytecode-module gateway: the synchronous operations. Each runs to its   *)
(* end in one step, on the module instance this.module refers to.          *)
(***************************************************************************)
\* The machine a handler starts on (this.module may still be null).
BrowserEntry == IF module = 0 THEN Mach(BlankModule) ELSE Mach(inst)

\* this._checkReady(); const m = this.module!; ... the body r
Guarded(r) ==
    IF checkReady(ready) THEN Done(BrowserEntry, "threw", NoResult, NotInitialized)
    ELSE IF module = 0 THEN Done(BrowserEntry, "threw", NoResult, NullModule)
    ELSE r

\* What outlives a handler of the machine state it ends in.
Store(ms) == [live |-> ms.live, path |-> ms.path, dir |-> ms.dir, files |-> ms.files]

\* The record of a step of the bytecode-module gateway.
BrowserCall(op, phase, args, flags, eng, r) ==
    [gw |-> "browser", op |-> op, phase |-> phase, args |-> args, flags |-> flags,
     log |-> r.ms.log, eng |-> eng, outcome |-> r.outcome, result |-> r.result,
     error |-> r.error, heapBefore |-> BrowserEntry.live, heapAfter |-> r.ms.live,
     faults |-> r.ms.faults, again |-> FALSE]

\* What every synchronous operation does with the machine state it ends in.
BrowserCommit(op, args, flags, eng, r) ==
    /\ inst' = IF module = 0 THEN inst ELSE Store(r.ms)
    /\ call' = BrowserCall(op, "call", args, flags, eng, r)
    /\ UNCHANGED <<flagVars, eclipse, nodeVars, ready, module, inits, factoryCalls, wrapCalls, load, bundle>>

BrowserPathArgs == {CustomPath, ""}

BrowserVersion ==
    BrowserCommit("version", <<>>, NoFlags, NoEngine, Guarded(SwissEphemeris_version(BrowserEntry)))

BrowserSetEphemerisPath ==
    \E path \in BrowserPathArgs :
        BrowserCommit("setEphemerisPath", <<path>>, NoFlags, NoEngine,
                      Guarded(SwissEphemeris_setEphemerisPath(BrowserEntry, path)))

BrowserSetEphemerisPathTrapped ==
    \E path \in BrowserPathArgs :
        BrowserCommit("setEphemerisPath", <<path>>, NoFlags, NoEngine,
                      Guarded(SwissEphemeris_setEphemerisPath_trapped(BrowserEntry, path)))

BrowserJulianDay ==
    \E date \in RevjulOutputs, cal \in {Julian, Gregorian}, jd \in JulianDays :
        BrowserCommit("julianDay", <<date, cal>>, NoFlags, NoEngine,
                      Guarded(SwissEphemeris_julianDay(BrowserEntry, jd)))

BrowserJulianDayToDate ==
    \E jd \in JulianDays, given \in BOOLEAN, cal \in {Julian, Gregorian}, out \in RevjulOutputs :
        BrowserCommit("julianDayToDate", IF given THEN <<jd, cal>> ELSE <<jd>>, NoFlags,
                      Engine(0, out, <<>>, ""),
                      Guarded(SwissEphemeris_julianDayToDate(
                                  BrowserEntry, IF given THEN cal ELSE Gregorian, out)))

BrowserJulianDayToDateTrapped ==
    \E jd \in JulianDays, cal \in {Julian, Gregorian} :
        BrowserCommit("julianDayToDate", <<jd, cal>>, NoFlags, NoEngine,
                      Guarded(SwissEphemeris_julianDayToDate_trapped(BrowserEntry)))

BrowserCalculatePosition ==
    \E body \in Bodies, flags \in FlagInputs, ret \in RetCodes, xx \in XXBufs, serr \in ErrTexts :
        LET normalizedFlags == normalizeFlags(flags)
            eng == Engine(ret, xx, <<>>, serr)
        IN  BrowserCommit("calculatePosition", <<body>>, normalizedFlags, eng,
                          Guarded(SwissEphemeris_calculatePosition(BrowserEntry, eng)))

BrowserGetCelestialBodyName ==
    \E body \in Bodies, name \in BodyNames :
        BrowserCommit("getCelestialBodyName", <<body>>, NoFlags, NoEngine,
                      Guarded(SwissEphemeris_getCelestialBodyName(BrowserEntry, name)))

BrowserFindNextLunarEclipse ==
    \E flags \in FlagInputs, eclipseType \in EclipseTypeInputs, backward \in BOOLEAN,
       ret \in EclipseRetCodes, tret \in TretBufs, serr \in ErrTexts :
        LET normalizedFlags == normalizeFlags(flags)
            normalizedEclipseType == normalizeEclipseTypes(eclipseType)
            eng == Engine(ret, tret, <<>>, serr)
        IN  BrowserCommit("findNextLunarEclipse",
                          <<normalizedEclipseType, IF backward THEN 1 ELSE 0>>,
                          normalizedFlags, eng,
                          Guarded(SwissEphemeris_findNextLunarEclipse(BrowserEntry, eng)))

BrowserFindNextSolarEclipse ==
    \E flags \in FlagInputs, eclipseType \in EclipseTypeInputs, backward \in BOOLEAN,
       ret \in EclipseRetCodes, tret \in TretBufs, serr \in ErrTexts :
        LET normalizedFlags == normalizeFlags(flags)
            normalizedEclipseType == normalizeEclipseTypes(eclipseType)
            eng == Engine(ret, tret, <<>>, serr)
        IN  BrowserCommit("findNextSolarEclipse",
                          <<normalizedEclipseType, IF backward THEN 1 ELSE 0>>,
                          normalizedFlags, eng,
                          Guarded(SwissEphemeris_findNextSolarEclipse(BrowserEntry, eng)))

BrowserCalculateHouses ==
    \E houseSystem \in HouseSystems, ret \in HouseRetCodes, cusps \in CuspBufs, ascmc \in AscmcBufs :
        LET eng == Engine(ret, cusps, ascmc, "")
        IN  BrowserCommit("calculateHouses", <<houseSystem>>, NoFlags, eng,
                          Guarded(SwissEphemeris_calculateHouses(BrowserEntry, houseSystem, eng)))

BrowserClose ==
    LET r == SwissEphemeris_close(BrowserEntry, ready)
    IN  /\ inst' = IF module = 0 THEN inst ELSE Store(r.ms)
        /\ call' = [BrowserCall("close", "call", <<>>, NoFlags, NoEngine, r)
                        EXCEPT !.again = call.gw = "browser" /\ call.op = "close"]
        /\ UNCHANGED <<flagVars, eclipse, nodeVars, ready, module, inits, factoryCalls,
                       wrapCalls, load, bundle>>

(***************************************************************************)
(* init(): an async function. It suspends at the dynamic import and at the *)
(* module factory; other calls run while it is suspended.                  *)
(***************************************************************************)
InitIds == 1..MaxInits

\* if (this.ready) return;
init_proceeds(rdy) == ~rdy

\* init() is called: the guard, then the import is awaited
BrowserInit ==
    \E i \in InitIds :
        /\ inits[i] = "idle"
        /\ \A j \in InitIds : j < i => inits[j] # "idle"
        /\ inits' = [inits EXCEPT ![i] = IF init_proceeds(ready) THEN "import" ELSE "done"]
        /\ call' = BrowserCall("init", "call", <<i>>, NoFlags, NoEngine,
                               Done([BrowserEntry EXCEPT !.log =
                                         IF init_proceeds(ready)
                                         THEN <<Ev("import", 0, "./swisseph.js")>> ELSE <<>>],
                                    IF init_proceeds(ready) THEN "suspended" ELSE "returned",
                                    NoResult, ""))
        /\ UNCHANGED <<flagVars, eclipse, nodeVars, ready, module, inst, factoryCalls, wrapCalls, load, bundle>>

FactoryNotFound == "Failed to load WASM module: SwissEphModule factory function not found"
ImportFailed == "import failed"
InstantiationFailed == "instantiation failed"

\* What the import can resolve to; the loader is evaluated once per page.
BundleOutcomes == IF bundle = "unknown" THEN {"function", "missing", "rejected"} ELSE {bundle}

\* the import settles: the factory is looked up and, when found, invoked
InitImported ==
    \E i \in InitIds, b \in BundleOutcomes :
        /\ inits[i] = "import"
        /\ bundle' = b
        /\ inits' = [inits EXCEPT ![i] = IF b = "function" THEN "factory" ELSE "failed"]
        /\ factoryCalls' = IF b = "function" THEN factoryCalls + 1 ELSE factoryCalls
        /\ call' = BrowserCall("init", "resume", <<i>>, NoFlags, NoEngine,
                               Done([BrowserEntry EXCEPT !.log =
                                         IF b = "function" THEN <<Ev("factory", 0, "SwissEphModule")>>
                                         ELSE <<>>],
                                    IF b = "function" THEN "suspended" ELSE "threw", NoResult,
                                    IF b = "function" THEN ""
                                    ELSE IF b = "missing" THEN FactoryNotFound ELSE ImportFailed))
        /\ UNCHANGED <<flagVars, eclipse, nodeVars, ready, module, inst, wrapCalls, load>>

\* the factory settles: this.module, _wrapFunctions(), ready, version().
\* A load suspended on the instance this.module referred to until now keeps
\* that instance.
InitInstantiated ==
    \E i \in InitIds, ok \in BOOLEAN :
        /\ inits[i] = "factory"
        /\ IF ok
           THEN LET r == SwissEphemeris_version(
                             [Mach(BlankModule) EXCEPT
                                 !.log = <<Ev("cwrap", 0, "swe_julday_wrap"),
                                           Ev("cwrap", 0, "swe_get_planet_name_wrap"),
                                           Ev("cwrap", 0, "swe_close_wrap"),
                                           Ev("cwrap", 0, "swe_version_wrap")>>])
                IN  /\ module' = 1
                    /\ inst' = Store(r.ms)
                    /\ wrapCalls' = wrapCalls + 1
                    /\ ready' = TRUE
                    /\ inits' = [inits EXCEPT ![i] = "done"]
                    /\ load' = IF load.pc \in {"fetch", "body"}
                               THEN [load EXCEPT !.own = FALSE] ELSE load
                    /\ call' = BrowserCall("init", "resume", <<i>>, NoFlags, NoEngine,
                                           Done(r.ms, "returned", NoResult, ""))
           ELSE /\ inits' = [inits EXCEPT ![i] = "failed"]
                /\ call' = BrowserCall("init", "resume", <<i>>, NoFlags, NoEngine,
                                       Done(BrowserEntry, "threw", NoResult, InstantiationFailed))
                /\ UNCHANGED <<module, inst, wrapCalls, ready, load>>
        /\ UNCHANGED <<flagVars, eclipse, nodeVars, factoryCalls, bundle>>

(***************************************************************************)
(* loadEphemerisFiles(files): an async function. It suspends at each fetch *)
(* and at each response body.                                              *)
(***************************************************************************)
VirtualDir == "/ephemeris"
StandardFiles == <<"sepl_18.se1", "semo_18.se1", "seas_18.se1">>
FileLists == {<<>>, <<"semo_18.se1">>}

\* own: the instance the load captured (const m = this.module) is still the
\* one this.module refers to; written: the files the load has written
NoLoad ==
    [pc |-> "idle", op |-> "none", files |-> <<>>, i |-> 0, own |-> TRUE, written |-> {}]

\* FS.mkdir('/ephemeris') in its try/catch
mkdir(ms) == [ms EXCEPT !.dir = TRUE, !.log = Append(@, Ev("fs", 0, "mkdir"))]

\* FS.mkdir throws (whatever the reason): the catch block drops the error,
\* and the method goes on without the directory having been created
mkdir_throws(ms) ==
    [ms EXCEPT !.log = Append(Append(@, Ev("fs", 0, "mkdir")), Ev("caught", 0, "mkdir"))]

\* FS.writeFile('/ephemeris/' + name, data)
writeFile(ms, name) ==
    [ms EXCEPT !.files = @ \cup {name}, !.log = Append(@, Ev("fs", 0, name))]

\* A plausible slip: the virtual directory is configured when the download
\* starts, before the file is there.
fetch_configuring(ms, name) ==
    [ms EXCEPT !.path = VirtualDir,
               !.log = Append(Append(@, Ev("ccall", 0, "swe_set_ephe_path_wrap")),
                              Ev("fetch", 0, name))]

\* fetch(file.url)
fetch(ms, name) == [ms EXCEPT !.log = Append(@, Ev("fetch", 0, name))]

\* the end of loadEphemerisFiles: this.setEphemerisPath('/ephemeris')
LoadFinish(ms) == Guarded(SwissEphemeris_setEphemerisPath(ms, VirtualDir))

\* The machine of the instance m the load captured. One that this.module
\* no longer refers to cannot be reached once the load ends: what is
\* written to it is not kept.
LoadMach == IF load.own THEN Mach(inst) ELSE Mach(BlankModule)
StoreOwn(ms) == IF load.own THEN Store(ms) ELSE inst

\* What every step of the load leaves alone.
LoadCommit(op, phase, files, r) ==
    /\ call' = BrowserCall(op, phase, <<files>>, NoFlags, NoEngine, r)
    /\ UNCHANGED <<flagVars, eclipse, nodeVars, ready, module, inits, factoryCalls, wrapCalls, bundle>>

\* loadEphemerisFiles(files) / loadStandardEphemeris() is called (once in
\* a run)
\* m1: the machine after FS.mkdir in its try/catch
LoadBegin(op, files, m1) ==
    /\ load.pc = "idle"
    /\ IF checkReady(ready) \/ module = 0
       THEN /\ load' = load
            /\ inst' = inst
            /\ LoadCommit(op, "call", files, Guarded(Done(BrowserEntry, "none", NoResult, "")))
       ELSE IF files = <<>>
            THEN LET r == LoadFinish(m1)
                 IN  /\ load' = [pc |-> "done", op |-> op, files |-> files, i |-> 0,
                                 own |-> TRUE, written |-> {}]
                     /\ inst' = Store(r.ms)
                     /\ LoadCommit(op, "call", files, r)
            ELSE LET m2 == fetch(m1, files[1])
                 IN  /\ load' = [pc |-> "fetch", op |-> op, files |-> files, i |-> 1,
                                 own |-> TRUE, written |-> {}]
                     /\ inst' = Store(m2)
                     /\ LoadCommit(op, "call", files, Done(m2, "suspended", NoResult, ""))

LoadStart(op, files) == LoadBegin(op, files, mkdir(Mach(inst)))

\* A load whose FS.mkdir throws.
LoadStartMkdirThrows ==
    /\ ready
    /\ \E files \in FileLists \cup {StandardFiles} :
           LoadBegin(IF files = StandardFiles THEN "loadStandardEphemeris" ELSE "loadEphemerisFiles",
                     files, mkdir_throws(Mach(inst)))

BrowserLoadEphemerisFiles ==
    \E files \in FileLists : LoadStart("loadEphemerisFiles", files)

BrowserLoadStandardEphemeris == LoadStart("loadStandardEphemeris", StandardFiles)

DownloadFailed == "Failed to download"
NetworkError == "network error"
WriteFailed == "ErrnoError: FS error"

\* the fetch settles: rejected, a response that is not ok, or a response
\* whose body is then awaited
LoadFetchResponds ==
    \E o \in {"ok", "notOk", "rejected"} :
        /\ load.pc = "fetch"
        /\ load' = [load EXCEPT !.pc = IF o = "ok" THEN "body" ELSE "failed"]
        /\ inst' = inst
        /\ LoadCommit(load.op, "resume", load.files,
                      Done(BrowserEntry,
                           IF o = "ok" THEN "suspended" ELSE "threw", NoResult,
                           IF o = "ok" THEN "" ELSE IF o = "notOk" THEN DownloadFailed ELSE NetworkError))

\* the body settles: the file is written; then the next fetch, or the end
LoadBodyArrives ==
    \E ok \in BOOLEAN :
        /\ load.pc = "body"
        /\ IF ~ok
           THEN /\ load' = [load EXCEPT !.pc = "failed"]
                /\ inst' = inst
                /\ LoadCommit(load.op, "resume", load.files,
                              Done(BrowserEntry, "threw", NoResult, NetworkError))
           ELSE LET m1 == writeFile(LoadMach, load.files[load.i])
                IN  IF load.i < Len(load.files)
                    THEN LET m2 == fetch(m1, load.files[load.i + 1])
                         IN  /\ load' = [load EXCEPT !.i = @ + 1, !.pc = "fetch",
                                                      !.written = @ \cup {load.files[load.i]}]
                             /\ inst' = StoreOwn(m2)
                             /\ LoadCommit(load.op, "resume", load.files,
                                           Done(m2, "suspended", NoResult, ""))
                    ELSE LET cur == IF load.own THEN m1 ELSE [Mach(inst) EXCEPT !.log = m1.log]
                             r == LoadFinish(cur)
                         IN  /\ load' = [load EXCEPT !.pc = "done",
                                                      !.written = @ \cup {load.files[load.i]}]
                             /\ inst' = Store(r.ms)
                             /\ LoadCommit(load.op, "resume", load.files, r)

\* the body settles and FS.writeFile throws: nothing catches it
LoadWriteThrows ==
    /\ load.pc = "body"
    /\ load' = [load EXCEPT !.pc = "failed"]
    /\ inst' = inst
    /\ LoadCommit(load.op, "resume", load.files,
                  Done([LoadMach EXCEPT !.log = <<Ev("fs", 0, load.files[load.i])>>],
                       "threw", NoResult, WriteFailed))

InitBrowser ==
    /\ ready = FALSE
    /\ module = 0
    /\ inst = BlankModule
    /\ inits = [i \in InitIds |-> "idle"]
    /\ factoryCalls = 0
    /\ wrapCalls = 0
    /\ load = NoLoad
    /\ bundle = "unknown"

NextBrowser ==
    \/ BrowserInit
    \/ InitImported
    \/ InitInstantiated
    \/ BrowserVersion
    \/ BrowserSetEphemerisPath
    \/ BrowserLoadEphemerisFiles
    \/ BrowserLoadStandardEphemeris
    \/ LoadFetchResponds
    \/ LoadBodyArrives
    \/ BrowserJulianDay
    \/ BrowserJulianDayToDate
    \/ BrowserCalculatePosition
    \/ BrowserGetCelestialBodyName
    \/ BrowserFindNextLunarEclipse
    \/ BrowserFindNextSolarEclipse
    \/ BrowserCalculateHouses
    \/ BrowserClose


(***************************************************************************)
(* The eclipse records and their convenience methods                       *)
(* (core/src/implementations.ts). Instants are day counts; 0 in a boundary *)
(* field stands for "no such phase".                                       *)
(***************************************************************************)
NoEclipse == [kind |-> "none"]

\* The sentinel and two instants: every order of a begin and an end.
Instants == {0, 1, 2}
LunarTypes ==
    {0, Total, Partial, Penumbral, Total + Partial, Total + Penumbral,
     Partial + Penumbral, Total + Partial + Penumbral}
SolarTypes ==
    {0, Total + Central, Annular + NonCentral, Partial, AnnularTotal + Central}

LunarEclipseImpl_isTotal(e) == BitAnd(e.type, Total) # 0

LunarEclipseImpl_isPartial(e) == BitAnd(e.type, Partial) # 0

LunarEclipseImpl_isPenumbralOnly(e) ==
    /\ BitAnd(e.type, Penumbral) # 0
    /\ BitAnd(e.type, BitOr(Total, Partial)) = 0

LunarEclipseImpl_getTotalityDuration(e) ==
    IF ~LunarEclipseImpl_isTotal(e) \/ e.totalBegin = 0 \/ e.totalEnd = 0
    THEN 0
    ELSE LET duration == (e.totalEnd - e.totalBegin) * 24
         IN  IF duration > 0 THEN duration ELSE 0

\* A plausible slip: the sentinel is not looked at.
LunarEclipseImpl_getPartialDuration_noSentinel(e) ==
    LET duration == (e.partialEnd - e.partialBegin) * 24
    IN  IF duration > 0 THEN duration ELSE 0

LunarEclipseImpl_getPartialDuration(e) ==
    IF e.partialBegin = 0 \/ e.partialEnd = 0
    THEN 0
    ELSE LET duration == (e.partialEnd - e.partialBegin) * 24
         IN  IF duration > 0 THEN duration ELSE 0

\* A plausible slip: the difference in days is returned.
LunarEclipseImpl_getTotalDuration_days(e) ==
    IF e.penumbralBegin = 0 \/ e.penumbralEnd = 0
    THEN 0
    ELSE LET duration == e.penumbralEnd - e.penumbralBegin
         IN  IF duration > 0 THEN duration ELSE 0

LunarEclipseImpl_getTotalDuration(e) ==
    IF e.penumbralBegin = 0 \/ e.penumbralEnd = 0
    THEN 0
    ELSE LET duration == (e.penumbralEnd - e.penumbralBegin) * 24
         IN  IF duration > 0 THEN duration ELSE 0

SolarEclipseImpl_isTotal(e) == BitAnd(e.type, Total) # 0
SolarEclipseImpl_isAnnular(e) == BitAnd(e.type, Annular) # 0
SolarEclipseImpl_isHybrid(e) == BitAnd(e.type, AnnularTotal) # 0
SolarEclipseImpl_isPartial(e) == BitAnd(e.type, Partial) # 0
SolarEclipseImpl_isCentral(e) == BitAnd(e.type, Central) # 0
SolarEclipseImpl_isNonCentral(e) == BitAnd(e.type, NonCentral) # 0

Boolean(b) == [kind |-> "boolean", value |-> b]
Number(n) == [kind |-> "number", value |-> n]

\* The record of a method call on the record at hand.
CoreCall(op, result) ==
    [gw |-> "core", op |-> op, phase |-> "call", args |-> <<>>, flags |-> NoFlags,
     log |-> <<>>, eng |-> NoEngine, outcome |-> "returned", result |-> result,
     error |-> "", heapBefore |-> {}, heapAfter |-> {}, faults |-> {}, again |-> FALSE]

\* What a method call on the record leaves alone.
CoreCommit(op, result) ==
    /\ call' = CoreCall(op, result)
    /\ UNCHANGED <<flagVars, nodeVars, browserVars, eclipse>>

\* new LunarEclipseImpl(type, maximum, ...): one record in a run
NewLunarEclipse ==
    \E type \in LunarTypes, partialBegin \in Instants, partialEnd \in Instants,
       totalBegin \in Instants, totalEnd \in Instants,
       penumbralBegin \in Instants, penumbralEnd \in Instants :
        /\ eclipse = NoEclipse
        /\ eclipse' = LunarEclipseImpl(type, 1, partialBegin, partialEnd, totalBegin, totalEnd,
                                       penumbralBegin, penumbralEnd)
        /\ call' = CoreCall("new LunarEclipseImpl", NoResult)
        /\ UNCHANGED <<flagVars, nodeVars, browserVars>>

\* new SolarEclipseImpl(type, maximum, ...): one record in a run
NewSolarEclipse ==
    \E type \in SolarTypes, partialBegin \in Instants, partialEnd \in Instants,
       centralBegin \in Instants, centralEnd \in Instants :
        /\ eclipse = NoEclipse
        /\ eclipse' = SolarEclipseImpl(type, 1, partialBegin, partialEnd, centralBegin, centralEnd,
                                       centralBegin, centralEnd)
        /\ call' = CoreCall("new SolarEclipseImpl", NoResult)
        /\ UNCHANGED <<flagVars, nodeVars, browserVars>>

LunarIsTotal ==
    eclipse.kind = "lunar" /\ CoreCommit("isTotal", Boolean(LunarEclipseImpl_isTotal(eclipse)))

LunarIsPartial ==
    eclipse.kind = "lunar" /\ CoreCommit("isPartial", Boolean(LunarEclipseImpl_isPartial(eclipse)))

LunarIsPenumbralOnly ==
    /\ eclipse.kind = "lunar"
    /\ CoreCommit("isPenumbralOnly", Boolean(LunarEclipseImpl_isPenumbralOnly(eclipse)))

LunarGetTotalityDuration ==
    /\ eclipse.kind = "lunar"
    /\ CoreCommit("getTotalityDuration", Number(LunarEclipseImpl_getTotalityDuration(eclipse)))

LunarGetPartialDuration ==
    /\ eclipse.kind = "lunar"
    /\ CoreCommit("getPartialDuration", Number(LunarEclipseImpl_getPartialDuration(eclipse)))

LunarGetTotalDuration ==
    /\ eclipse.kind = "lunar"
    /\ CoreCommit("getTotalDuration", Number(LunarEclipseImpl_getTotalDuration(eclipse)))

SolarIsTotal ==
    eclipse.kind = "solar" /\ CoreCommit("isTotal", Boolean(SolarEclipseImpl_isTotal(eclipse)))

SolarIsAnnular ==
    eclipse.kind = "solar" /\ CoreCommit("isAnnular", Boolean(SolarEclipseImpl_isAnnular(eclipse)))

SolarIsHybrid ==
    eclipse.kind = "solar" /\ CoreCommit("isHybrid", Boolean(SolarEclipseImpl_isHybrid(eclipse)))

SolarIsPartial ==
    eclipse.kind = "solar" /\ CoreCommit("isPartial", Boolean(SolarEclipseImpl_isPartial(eclipse)))

SolarIsCentral ==
    eclipse.kind = "solar" /\ CoreCommit("isCentral", Boolean(SolarEclipseImpl_isCentral(eclipse)))

SolarIsNonCentral ==
    /\ eclipse.kind = "solar"
    /\ CoreCommit("isNonCentral", Boolean(SolarEclipseImpl_isNonCentral(eclipse)))

\* toString() of a date record: the year (with BCE for a negative one), the
\* month, the day, the hour and the name of the calendar.
DateTimeImpl_toString(d) ==
    LET calType == IF d.calendarType = Gregorian THEN "Gregorian" ELSE "Julian"
    IN  [kind |-> "string", year |-> IF d.year < 0 THEN -d.year ELSE d.year,
         bce |-> d.year < 0, month |-> d.month, day |-> d.day, hour |-> d.hour,
         calType |-> calType]

\* toString() on the date record the last call returned.
DateToString ==
    /\ call.result.kind = "date"
    /\ call' = [CoreCall("toString", DateTimeImpl_toString(call.result))
                    EXCEPT !.args = <<call.result>>]
    /\ UNCHANGED <<flagVars, nodeVars, browserVars, eclipse>>

InitRecords == eclipse = NoEclipse

NextRecords ==
    \/ NewLunarEclipse
    \/ NewSolarEclipse
    \/ LunarIsTotal
    \/ LunarIsPartial
    \/ LunarIsPenumbralOnly
    \/ LunarGetTotalityDuration
    \/ LunarGetPartialDuration
    \/ LunarGetTotalDuration
    \/ SolarIsTotal
    \/ SolarIsAnnular
    \/ SolarIsHybrid
    \/ SolarIsPartial
    \/ SolarIsCentral
    \/ SolarIsNonCentral

Init == InitFlags /\ InitNode /\ InitBrowser /\ InitRecords /\ call = NoCall

SpecFlags == Init /\ [][NextFlags]_vars

SpecNode == Init /\ [][NextNode]_vars

SpecBrowser == Init /\ [][NextBrowser]_vars

\* The calculations of both gateways, with what makes them reachable.
NextGateways ==
    \/ NodeSetEphemerisPath
    \/ NodeJulianDayToDate
    \/ BrowserJulianDayToDate
    \/ DateToString
    \/ NodeCalculatePosition
    \/ NodeCalculateHouses
    \/ NodeFindNextLunarEclipse
    \/ NodeFindNextSolarEclipse
    \/ BrowserInit
    \/ InitImported
    \/ InitInstantiated
    \/ BrowserCalculatePosition
    \/ BrowserCalculateHouses
    \/ BrowserFindNextLunarEclipse
    \/ BrowserFindNextSolarEclipse

SpecGateways == Init /\ [][NextGateways]_vars

SpecRecords == Init /\ [][NextRecords]_vars

\* Teardown of both gateways, among the calls that change what it finds.
NextTeardown ==
    \/ NodeSetEphemerisPath
    \/ NodeCalculatePosition
    \/ NodeClose
    \/ BrowserInit
    \/ InitImported
    \/ InitInstantiated
    \/ BrowserCalculatePosition
    \/ BrowserClose

SpecTeardown == Init /\ [][NextTeardown]_vars

\* The bytecode-module gateway with an engine that may trap inside a call;
\* in the other specifications every engine call returns.
NextTrap ==
    \/ BrowserInit
    \/ InitImported
    \/ InitInstantiated
    \/ BrowserSetEphemerisPath
    \/ BrowserSetEphemerisPathTrapped
    \/ BrowserJulianDayToDate
    \/ BrowserJulianDayToDateTrapped

SpecTrap == Init /\ [][NextTrap]_vars

\* The load with a virtual filesystem that may refuse a call and a network
\* that may stay silent: every continuation runs once what it awaits has
\* settled, but nothing makes a fetch settle.
NextLoad ==
    \/ BrowserInit
    \/ InitImported
    \/ InitInstantiated
    \/ BrowserLoadEphemerisFiles
    \/ BrowserLoadStandardEphemeris
    \/ LoadStartMkdirThrows
    \/ LoadFetchResponds
    \/ LoadBodyArrives
    \/ LoadWriteThrows

SpecLoad == Init /\ [][NextLoad]_vars /\ WF_vars(LoadBodyArrives \/ LoadWriteThrows)

(***************************************************************************)
(* Claims about the flag composition utilities.                            *)
(***************************************************************************)

\* C9: for any finite set of named options, normalising it as a raw OR'd
\* integer, as a list of the options in any order (with or without repeats)
\* and as a builder filled by sequential add calls yields the identical
\* integer, for normalizeFlags and for normalizeEclipseTypes. Every order and
\* every repetition up to MaxLen is a reachable run of add calls, and the raw
\* integer depends on the set of options alone.
C9_NormalizationEquivalence ==
    norm.kind = "done" =>
        /\ norm.cArray = norm.cNumber
        /\ norm.cBuilder = norm.cNumber
        /\ norm.eArray = norm.eNumber
        /\ norm.eBuilder = norm.eNumber

\* A list with a repeated option and two distinct options was normalised in
\* all three shapes, for both vocabularies.
C9_Witness ==
    /\ norm.kind = "done"
    /\ Len(norm.copts) = 3
    /\ norm.copts[1] = norm.copts[3]
    /\ norm.copts[1] # norm.copts[2]
    /\ Len(norm.eopts) = 3
    /\ norm.eopts[1] = norm.eopts[2]
    /\ norm.eopts[2] # norm.eopts[3]
    /\ norm.cNumber = SwissEphemeris + Speed

\* The last two builder calls were add(x); add(x).
AddThenAdd ==
    /\ Len(bhist) = 2
    /\ bhist[1].op = "add"
    /\ bhist[2].op = "add"
    /\ bhist[1].x = bhist[2].x

\* The last two builder calls were add(x); remove(x).
AddThenRemove ==
    /\ Len(bhist) = 2
    /\ bhist[1].op = "add"
    /\ bhist[2].op = "remove"
    /\ bhist[1].x = bhist[2].x

\* C10 as stated: in any builder state, add(x); add(x) yields the integer of
\* a single add(x), and add(x); remove(x) yields the integer the builder had
\* before the two calls.
C10_Original ==
    /\ AddThenAdd => cflags = bhist[2].pre
    /\ AddThenRemove => cflags = bhist[1].pre

\* C10 amended: add(x); add(x) yields the integer of a single add(x);
\* add(x); remove(x) yields the integer the builder had before the two calls
\* when x was not set in it, and that integer with x cleared when x was set.
C10_Amended ==
    /\ AddThenAdd => cflags = bhist[2].pre
    /\ (AddThenRemove /\ BitAnd(bhist[1].pre, bhist[1].x) = 0) =>
            cflags = bhist[1].pre
    /\ (AddThenRemove /\ BitAnd(bhist[1].pre, bhist[1].x) # 0) =>
            cflags + bhist[1].x = bhist[1].pre

\* add(x); remove(x) on a non-empty builder that did not hold x.
C10_Witness ==
    /\ AddThenRemove
    /\ bhist[1].pre # 0
    /\ BitAnd(bhist[1].pre, bhist[1].x) = 0
    /\ cflags = bhist[1].pre

(***************************************************************************)
(* Claims about the native gateway.                                        *)
(***************************************************************************)
FlaggedOps == {"calculatePosition", "findNextLunarEclipse", "findNextSolarEclipse"}

EngineCalcCalls == {"calc_ut", "lun_eclipse_when", "sol_eclipse_when_glob"}

\* c is a native calculation whose normalised flags select the file-backed
\* engine (the Moshier bit is clear).
FileBackedCalc(c) ==
    /\ c.gw = "node"
    /\ c.op \in FlaggedOps
    /\ BitAnd(c.flags, MoshierEphemeris) = 0

\* C5: from the unconfigured state with no prior setEphemerisPath call, a
\* calculation whose flags select the file-backed engine configures the
\* bundled directory exactly once, before the engine calculation, and marks
\* the state configured; such a call in the configured state configures
\* nothing and changes no gateway state; over a whole run the implicit
\* configuration happens at most once.
C5_LazyInitOnce ==
    /\ [][(FileBackedCalc(call') /\ ~ephemerisPathSet /\ explicitArg = NoArg) =>
            /\ ephemerisPathSet'
            /\ enginePath' = getBundledEphemerisPath
            /\ implicitConfigs' = implicitConfigs + 1
            /\ Len(call'.log) = 2
            /\ call'.log[1] = BindingCall("set_ephe_path")
            /\ call'.log[2].f \in EngineCalcCalls]_vars
    /\ [][(FileBackedCalc(call') /\ ephemerisPathSet) =>
            /\ UNCHANGED nodeVars
            /\ Len(call'.log) = 1
            /\ call'.log[1].f \in EngineCalcCalls]_vars
    /\ [](implicitConfigs <= 1)

\* The first file-backed calculation, made with no configuration before it,
\* has configured the bundled directory and then called the engine.
C5_Witness ==
    /\ FileBackedCalc(call)
    /\ call.op = "calculatePosition"
    /\ call.log = <<BindingCall("set_ephe_path"), BindingCall("calc_ut")>>
    /\ explicitArg = NoArg
    /\ ephemerisPathSet
    /\ implicitConfigs = 1
    /\ enginePath = getBundledEphemerisPath

\* The directory selected by an explicit call: the bundled one for
\* null/undefined, the caller's otherwise.
ChosenPath(arg) == IF arg.t = "null" THEN getBundledEphemerisPath ELSE arg.s

\* C6: after any setEphemerisPath call (with a path, or with null/undefined)
\* the state is marked configured and the engine holds the directory chosen
\* by the most recent explicit call; no later call configures implicitly.
C6_ExplicitPathSticks ==
    /\ [](explicitArg # NoArg =>
            /\ ephemerisPathSet
            /\ enginePath = ChosenPath(explicitArg))
    /\ [][explicitArg # NoArg =>
            /\ implicitConfigs' = implicitConfigs
            /\ (call'.op # "setEphemerisPath" =>
                    BindingCall("set_ephe_path") \notin Range(call'.log))]_vars

\* A file-backed calculation after setEphemerisPath('/custom/ephe'): the
\* engine was called without any configuration and still holds that path.
C6_Witness ==
    /\ explicitArg = Str(CustomPath)
    /\ FileBackedCalc(call)
    /\ call.log = <<BindingCall("calc_ut")>>
    /\ ephemerisPathSet
    /\ enginePath = CustomPath
    /\ implicitConfigs = 0


(***************************************************************************)
(* Claims about the bytecode-module gateway.                               *)
(***************************************************************************)
\* The positions of a handler's log where a region is acquired / released.
Mallocs(log) == {i \in DOMAIN log : log[i].e = "malloc" /\ log[i].p # 0}
FreesOf(log, p) == {j \in DOMAIN log : log[j].e = "free" /\ log[j].p = p}

\* Every region acquired in the log is released exactly once, later, and
\* nothing else is released.
Balanced(log) ==
    /\ \A i \in Mallocs(log) :
          /\ Cardinality(FreesOf(log, log[i].p)) = 1
          /\ \A j \in FreesOf(log, log[i].p) : j > i
    /\ \A j \in DOMAIN log :
          log[j].e = "free" => \E i \in Mallocs(log) : log[i].p = log[j].p

ScratchOps ==
    {"setEphemerisPath", "julianDayToDate", "calculatePosition", "calculateHouses",
     "findNextLunarEclipse", "findNextSolarEclipse"}

\* C1: in the bytecode-module gateway an operation that returns normally
\* (setEphemerisPath, julianDayToDate, calculatePosition, calculateHouses,
\* findNextLunarEclipse, findNextSolarEclipse) has released every heap
\* region it acquired, each exactly once, without a heap fault, and no
\* scratch region is outstanding afterwards.
C1_ScratchFreedOnReturn ==
    (call.gw = "browser" /\ call.op \in ScratchOps /\ call.outcome = "returned")
        => /\ Balanced(call.log)
           /\ call.faults = {}
           /\ call.heapAfter = call.heapBefore
           /\ inst.live = {}

\* A julianDayToDate that returned after acquiring and releasing four regions.
C1_Witness ==
    /\ call.gw = "browser"
    /\ call.op = "julianDayToDate"
    /\ call.outcome = "returned"
    /\ Cardinality(Mallocs(call.log)) = 4
    /\ call.result.kind = "date"
    /\ inst.live = {}

FailingOps == {"calculatePosition", "findNextLunarEclipse", "findNextSolarEclipse"}

\* The engine entry point of the call was reached.
EngineReached(c) ==
    \E i \in DOMAIN c.log : c.log[i].e \in {"ccall", "binding"} /\ c.log[i].f # "set_ephe_path"

\* C2: in the bytecode-module gateway, when the engine reports a negative
\* return code in calculatePosition, findNextLunarEclipse or
\* findNextSolarEclipse, the call raises the engine's message after having
\* released both scratch regions (result buffer and message buffer): the
\* heap holds after the call what it held before.
C2_FailureFreesBoth ==
    (call.gw = "browser" /\ call.op \in FailingOps /\ EngineReached(call) /\ call.eng.ret < 0)
        => /\ call.outcome = "threw"
           /\ Cardinality(Mallocs(call.log)) = 2
           /\ Balanced(call.log)
           /\ call.faults = {}
           /\ call.heapAfter = call.heapBefore
           /\ inst.live = {}

\* A failing eclipse search that raised the engine's message.
C2_Witness ==
    /\ call.gw = "browser"
    /\ call.op = "findNextLunarEclipse"
    /\ call.eng.ret < 0
    /\ call.outcome = "threw"
    /\ call.error \in ErrTexts
    /\ Cardinality(Mallocs(call.log)) = 2

GuardedOps ==
    {"version", "setEphemerisPath", "loadStandardEphemeris", "loadEphemerisFiles",
     "julianDay", "julianDayToDate", "calculatePosition", "getCelestialBodyName",
     "findNextLunarEclipse", "findNextSolarEclipse", "calculateHouses"}

NoInitCompleted == \A i \in InitIds : inits[i] # "done"

\* C3: while no init() has completed, every operation other than init()
\* and close() fails at once with the not-initialized error, having made no
\* heap allocation, engine call, fetch or filesystem write, and having
\* started no load.
C3_NotReadyFailsFast ==
    (call.gw = "browser" /\ call.phase = "call" /\ call.op \in GuardedOps /\ NoInitCompleted)
        => /\ call.outcome = "threw"
           /\ call.error = NotInitialized
           /\ call.log = <<>>
           /\ call.heapAfter = call.heapBefore
           /\ inst = BlankModule
           /\ load = NoLoad

\* A load asked for while an init() is still awaiting the module.
C3_Witness ==
    /\ call.gw = "browser"
    /\ call.op = "loadStandardEphemeris"
    /\ call.outcome = "threw"
    /\ call.error = NotInitialized
    /\ \E i \in InitIds : inits[i] = "factory"
    /\ NoInitCompleted

\* C4: module instantiation is single-shot: whatever the sequence and
\* interleaving of init() calls, the module factory is invoked at most
\* once and the entry points are resolved at most once.
C4_SingleShot == factoryCalls <= 1 /\ wrapCalls <= 1

(***************************************************************************)
(* Claims about both gateways.                                             *)
(***************************************************************************)
CalcOps ==
    {"calculatePosition", "calculateHouses", "findNextLunarEclipse", "findNextSolarEclipse"}

\* C7: in both gateways, when the engine entry point of calculatePosition,
\* calculateHouses, findNextLunarEclipse or findNextSolarEclipse returns a
\* negative code, the operation raises an error and builds no record.
C7_NegativeCodeRaises ==
    (call.op \in CalcOps /\ EngineReached(call) /\ call.eng.ret < 0)
        => (call.outcome = "threw" /\ call.result = NoResult)

\* C8: the flags field of a position record returned by calculatePosition,
\* in either gateway, is the engine's return code of that call, and the six
\* numeric fields are the buffer slots 0..5 in order.
C8_PositionRecord ==
    (call.op = "calculatePosition" /\ call.outcome = "returned")
        => /\ call.result.kind = "position"
           /\ call.result.flags = call.eng.ret
           /\ call.result.longitude = call.eng.buf[1]
           /\ call.result.latitude = call.eng.buf[2]
           /\ call.result.distance = call.eng.buf[3]
           /\ call.result.longitudeSpeed = call.eng.buf[4]
           /\ call.result.latitudeSpeed = call.eng.buf[5]
           /\ call.result.distanceSpeed = call.eng.buf[6]

\* A position returned by the bytecode-module gateway whose return code is
\* not the flags that were asked for.
C8_Witness ==
    /\ call.gw = "browser"
    /\ call.op = "calculatePosition"
    /\ call.outcome = "returned"
    /\ call.result.flags = call.eng.ret
    /\ call.result.flags # call.flags


(***************************************************************************)
(* Claims about the eclipse records.                                       *)
(***************************************************************************)
DurationOps == {"getTotalityDuration", "getPartialDuration", "getTotalDuration"}

\* The two boundaries a duration is derived from.
BeginOf(e, op) ==
    IF op = "getTotalityDuration" THEN e.totalBegin
    ELSE IF op = "getPartialDuration" THEN e.partialBegin
    ELSE e.penumbralBegin

EndOf(e, op) ==
    IF op = "getTotalityDuration" THEN e.totalEnd
    ELSE IF op = "getPartialDuration" THEN e.partialEnd
    ELSE e.penumbralEnd

LunarDurationCall == call.gw = "core" /\ call.op \in DurationOps /\ eclipse.kind = "lunar"

\* C11: for every lunar eclipse record, whatever its type bitmask and
\* boundary values, each derived duration is >= 0, and is exactly 0
\* whenever either of its two boundaries is the sentinel 0.
C11_DurationNonNegative ==
    LunarDurationCall
        => /\ call.result.value >= 0
           /\ (BeginOf(eclipse, call.op) = 0 \/ EndOf(eclipse, call.op) = 0)
                  => call.result.value = 0

\* A partial duration of 0 on a record whose partial phase ends at a real
\* instant but begins at the sentinel.
C11_Witness ==
    /\ LunarDurationCall
    /\ call.op = "getPartialDuration"
    /\ eclipse.partialBegin = 0
    /\ eclipse.partialEnd = 2
    /\ call.result.value = 0

\* (end - begin) * 24 when both boundaries are set and in order, else 0
Hours(begin, end) ==
    IF begin # 0 /\ end # 0 /\ end > begin THEN (end - begin) * 24 ELSE 0

\* C12 as stated: each derived duration of a lunar record equals
\* (end - begin) * 24 when both boundaries are non-zero and end > begin,
\* and 0 otherwise.
C12_Original ==
    LunarDurationCall
        => call.result.value = Hours(BeginOf(eclipse, call.op), EndOf(eclipse, call.op))

\* C12 amended: the partial-phase and whole-eclipse durations equal
\* (end - begin) * 24 when both boundaries are non-zero and end > begin, and
\* 0 otherwise; the totality duration does so when the Total bit is set in
\* the type bitmask, and is 0 when it is not.
C12_Amended ==
    LunarDurationCall
        => call.result.value =
               IF call.op = "getTotalityDuration" /\ BitAnd(eclipse.type, Total) = 0
               THEN 0
               ELSE Hours(BeginOf(eclipse, call.op), EndOf(eclipse, call.op))

\* A totality duration of 0 on a record without the Total bit whose total
\* boundaries are set and in order.
C12_Witness ==
    /\ LunarDurationCall
    /\ call.op = "getTotalityDuration"
    /\ BitAnd(eclipse.type, Total) = 0
    /\ eclipse.totalBegin = 1
    /\ eclipse.totalEnd = 2
    /\ call.result.value = 0

\* C13: a phase whose boundary slots hold the sentinel 0 is reported as
\* absent by the derived predicates: a lunar record whose totalBegin or
\* totalEnd is 0 has isTotal() false, and a record whose partialBegin or
\* partialEnd is 0 has isPartial() false, whatever the type bitmask.
C13_SentinelMeansAbsent ==
    /\ (call.gw = "core" /\ call.op = "isTotal" /\ eclipse.kind = "lunar"
            /\ (eclipse.totalBegin = 0 \/ eclipse.totalEnd = 0))
           => call.result.value = FALSE
    /\ (call.gw = "core" /\ call.op = "isPartial" /\ eclipse.kind \in {"lunar", "solar"}
            /\ (eclipse.partialBegin = 0 \/ eclipse.partialEnd = 0))
           => call.result.value = FALSE


(***************************************************************************)
(* Claims about teardown.                                                  *)
(***************************************************************************)
CloseCall == call.op = "close" /\ call.phase = "call"

\* C14: close() raises no error in any state of either gateway: before any
\* calculation, after one, and right after another close(); in the
\* bytecode-module gateway a close() made while no init() has completed
\* makes no engine call.
C14_CloseIsSafe ==
    CloseCall
        => /\ call.outcome = "returned"
           /\ call.error = ""
           /\ call.faults = {}
           /\ (call.gw = "browser" /\ NoInitCompleted) => call.log = <<>>

\* A second close() in a row in the bytecode-module gateway while an init()
\* is still awaiting the module factory.
C14_Witness ==
    /\ CloseCall
    /\ call.gw = "browser"
    /\ call.again
    /\ NoInitCompleted
    /\ \E i \in InitIds : inits[i] = "factory"
    /\ call.outcome = "returned"


\* C15: after close() in the native gateway the configured flag is back at
\* its initial unset value, so that the next calculation selecting the
\* file-backed engine configures the default directory again.
C15_CloseResetsConfigured ==
    (CloseCall /\ call.gw = "node") => ephemerisPathSet = FALSE


(***************************************************************************)
(* Claims about the analytical engine in the native gateway.               *)
(***************************************************************************)
MoshierCalc(c) ==
    /\ c.gw = "node"
    /\ c.op \in FlaggedOps
    /\ BitAnd(c.flags, MoshierEphemeris) # 0

\* C16: a calculation in the native gateway whose normalized flags have the
\* Moshier bit set performs no path configuration and leaves the configured
\* flag, the engine's directory and the count of implicit configurations as
\* they were, in every state and whatever other bits are set.
C16_MoshierSkipsConfiguration ==
    [][MoshierCalc(call') =>
           /\ ephemerisPathSet' = ephemerisPathSet
           /\ enginePath' = enginePath
           /\ implicitConfigs' = implicitConfigs
           /\ Len(call'.log) = 1
           /\ call'.log[1].f \in EngineCalcCalls]_vars

\* A calculation with both the Moshier and the Swiss Ephemeris bit in the
\* unconfigured state, which stays unconfigured.
C16_Witness ==
    /\ MoshierCalc(call)
    /\ call.flags = SwissEphemeris + MoshierEphemeris
    /\ ~ephemerisPathSet
    /\ enginePath = UnsetPath
    /\ implicitConfigs = 0


(***************************************************************************)
(* Claims about the error a failing calculation raises.                    *)
(***************************************************************************)
\* The failure messages a gateway composes itself, each with the operation
\* whose name it carries; every other message is the engine's text, handed
\* on as it is.
NamedFailures == {<<"calculateHouses", "Failed to calculate houses">>}

NamesOperation(msg, op) == <<op, msg>> \in NamedFailures

\* C17: when the engine rejects the body id passed to calculatePosition, in
\* either gateway, the operation raises an error whose message is
\* non-empty, is the message the engine supplied, and identifies
\* calculatePosition as the operation that produced it.
C17_ErrorNamesOperation ==
    (call.op = "calculatePosition" /\ EngineReached(call) /\ call.eng.ret < 0)
        => /\ call.outcome = "threw"
           /\ call.error # ""
           /\ call.error = call.eng.serr
           /\ NamesOperation(call.error, "calculatePosition")

\* What the code does instead: raises the engine's text and nothing else.
C17_EngineTextOnly ==
    (call.op = "calculatePosition" /\ EngineReached(call) /\ call.eng.ret < 0)
        => /\ call.outcome = "threw"
           /\ call.error = call.eng.serr


(***************************************************************************)
(* Claims about exceptions and failing loads in the bytecode-module        *)
(* gateway.                                                                *)
(***************************************************************************)
\* C18: in the bytecode-module gateway, when the engine call itself throws,
\* every scratch region the call had acquired is released before the error
\* reaches the caller: the frees of the call match its allocations and the
\* heap holds after the call what it held before.
C18_TrapReleasesAll ==
    (call.gw = "browser" /\ call.outcome = "threw" /\ call.error = EngineTrap)
        => /\ Balanced(call.log)
           /\ call.heapAfter = call.heapBefore


LoadOps == {"loadEphemerisFiles", "loadStandardEphemeris"}

\* C19: when loadEphemerisFiles fails on any file (a response that is not
\* ok, a rejected fetch or body), the virtual filesystem holds none of the
\* files of that call.
C19_FailedLoadWritesNothing ==
    load.pc = "failed" => (load.written = {} /\ inst.files \cap Range(load.files) = {})

\* The step configured the engine's directory.
Configures(c) ==
    \E i \in DOMAIN c.log : c.log[i].e = "ccall" /\ c.log[i].f = "swe_set_ephe_path_wrap"

\* C20: a step of loadEphemerisFiles / loadStandardEphemeris configures the
\* engine's directory only as the step that ends the load, with the virtual
\* directory, after every requested file has been fetched and written, the
\* configuration being the last engine or filesystem effect of the load;
\* every other step of a load, a failing one included, configures nothing
\* and leaves the engine's directory as it was.
C20_ConfigureAfterAllWritten ==
    [][(call'.gw = "browser" /\ call'.op \in LoadOps) =>
           /\ Configures(call') =>
                  /\ load.pc \in {"idle", "body"}
                  /\ load'.pc = "done"
                  /\ load'.written = Range(load'.files)
                  /\ load'.own => Range(load'.files) \subseteq inst'.files
                  /\ inst'.path = VirtualDir
                  /\ \A i \in DOMAIN call'.log :
                         call'.log[i].e \in {"fs", "fetch"} =>
                             \E j \in DOMAIN call'.log :
                                 j > i /\ call'.log[j].f = "swe_set_ephe_path_wrap"
           /\ load'.pc # "done" => (~Configures(call') /\ inst'.path = inst.path)
           /\ call'.outcome = "threw" => (~Configures(call') /\ inst'.path = inst.path)]_vars

\* The standard load ends: its three files are in the virtual directory and
\* the engine is configured with it.
C20_Witness ==
    /\ call.gw = "browser"
    /\ call.op = "loadStandardEphemeris"
    /\ Configures(call)
    /\ load.pc = "done"
    /\ load.written = Range(StandardFiles)
    /\ load.own
    /\ Range(StandardFiles) \subseteq inst.files
    /\ inst.path = VirtualDir


\* A step of a load in which a fetch, FS.writeFile or FS.mkdir failed.
ResourceFailed(c) ==
    \/ c.error \in {DownloadFailed, NetworkError, WriteFailed}
    \/ \E i \in DOMAIN c.log : c.log[i].e = "caught"

\* C21: every resource failure inside loadEphemerisFiles (a failing fetch,
\* a failing write to the virtual filesystem, a failure to create the
\* virtual directory) reaches the caller as an error: the step in which it
\* happens throws, with nothing caught on the way, and the load ends there.
C21_FailuresPropagate ==
    (call.gw = "browser" /\ call.op \in LoadOps /\ ResourceFailed(call))
        => /\ call.outcome = "threw"
           /\ call.error # ""
           /\ \A i \in DOMAIN call.log : call.log[i].e # "caught"
           /\ load.pc = "failed"

\* What holds of the failures other than the one of FS.mkdir.
C21_FetchAndWriteFailuresPropagate ==
    (call.gw = "browser" /\ call.op \in LoadOps
         /\ call.error \in {DownloadFailed, NetworkError, WriteFailed})
        => (call.outcome = "threw" /\ load.pc = "failed")


\* C23: the fetch of a data file honours a timeout: a load suspended at a
\* fetch does not stay there for ever; when no response comes it eventually
\* fails with an error.
C23_FetchTimesOut == (load.pc = "fetch") ~> (load.pc # "fetch")


(***************************************************************************)
(* Claims about the validation of inputs.                                  *)
(***************************************************************************)
\* C24: normalizeFlags and normalizeEclipseTypes, given an input that is
\* not a number, a builder instance or a list (a string, null, a plain
\* object), raise a type/contract violation instead of returning a value.
C24_UnrecognizedShapeRaises ==
    norm.kind = "unrecognized" => norm.outcome = "threw"

\* What the code does instead: both functions hand the input back.
C24_UnrecognizedShapeReturned ==
    norm.kind = "unrecognized"
        => /\ norm.outcome = "returned"
           /\ norm.cResult = norm.input.val
           /\ norm.eResult = norm.input.val


\* C25: julianDay of the native gateway rejects a non-finite year, month,
\* day or hour (NaN, Infinity, -Infinity) with a TypeError that says
\* 'julianDay requires finite numbers' and names the field, without calling
\* the engine. (A call with a non-finite field has one argument record.)
RequiresFinite == "TypeError: julianDay requires finite numbers"

C25_NonFiniteRejected ==
    (call.gw = "node" /\ call.op = "julianDay" /\ Len(call.args) = 1)
        => /\ call.outcome = "threw"
           /\ call.error = RequiresFinite
           /\ call.log = <<>>


(***************************************************************************)
(* Claims about the two gateways side by side.                             *)
(***************************************************************************)
\* The calendar type a julianDayToDate call asked for.
PassedCalendar(c) == IF Len(c.args) = 2 THEN c.args[2] ELSE Gregorian

\* C26: julianDayToDate, in both gateways, returns a record whose
\* calendarType is the calendar system passed in (Gregorian when none is),
\* and hands that same value to the engine; toString labels a record
\* 'Gregorian' exactly when its calendarType is Gregorian and 'Julian'
\* exactly when it is Julian.
C26_CalendarsNotConflated ==
    /\ (call.op = "julianDayToDate" /\ call.outcome = "returned")
           => /\ call.result.calendarType = PassedCalendar(call)
              /\ \E i \in DOMAIN call.log : call.log[i] = Gregflag(PassedCalendar(call))
              /\ \A i \in DOMAIN call.log :
                     call.log[i].e = "arg" => call.log[i] = Gregflag(PassedCalendar(call))
    /\ call.op = "toString"
           => /\ call.result.calType = "Gregorian" <=> call.args[1].calendarType = Gregorian
              /\ call.result.calType = "Julian" <=> call.args[1].calendarType = Julian

\* toString on a record of the Julian calendar.
C26_Witness ==
    /\ call.op = "toString"
    /\ call.args[1].calendarType = Julian
    /\ call.result.calType = "Julian"


(***************************************************************************)
(* Claims about init() and the calls around it.                            *)
(***************************************************************************)
\* An init() call has started and has neither completed nor failed.
InitInFlight == \E i \in InitIds : inits[i] \in {"import", "factory"}

\* C22: while an init() call is in flight on the instance, no calculation
\* operation of the instance reaches the engine, in every interleaving of
\* init() calls and calculation calls.
C22_NoCalculationDuringInit ==
    (call.gw = "browser" /\ call.phase = "call" /\ InitInFlight
         /\ call.op \in CalcOps \cup {"julianDay", "julianDayToDate"})
        => ~EngineReached(call)

\* With a single init() call the statement holds.
C22_HoldsForOneInit ==
    (call.gw = "browser" /\ call.phase = "call" /\ InitInFlight
         /\ (\A i \in InitIds : i > 1 => inits[i] = "idle")
         /\ call.op \in CalcOps \cup {"julianDay", "julianDayToDate"})
        => ~EngineReached(call)


\* What the native gateway hands back for the arguments and the engine
\* outputs of call c: whether it returns or throws, and the record.
NativeOutcome(c) ==
    CASE c.op = "julianDayToDate" ->
            LET r == Revjul(c.eng.buf).v
            IN  <<"returned", DateTimeImpl(r[1], r[2], r[3], r[4], PassedCalendar(c))>>
      [] c.op = "calculatePosition" ->
            LET r == CalcUt(c.eng)
            IN  IF r.ok THEN <<"returned", NodePosition(r.v[1], r.v[2], c.flags)>>
                ELSE <<"threw", NoResult>>
      [] c.op = "calculateHouses" ->
            LET r == Houses(c.eng)
            IN  IF r.ok THEN <<"returned", HouseDataRecord(r.v[1], r.v[2], c.args[1])>>
                ELSE <<"threw", NoResult>>
      [] c.op = "findNextLunarEclipse" ->
            LET r == LunEclipseWhen(c.eng)
            IN  IF r.ok
                THEN <<"returned", LunarEclipseImpl(r.v[1], r.v[2][1], r.v[2][2], r.v[2][3],
                                                    r.v[2][4], r.v[2][5], r.v[2][6], r.v[2][7])>>
                ELSE <<"threw", NoResult>>
      [] c.op = "findNextSolarEclipse" ->
            LET r == SolEclipseWhenGlob(c.eng)
            IN  IF r.ok
                THEN <<"returned", SolarEclipseImpl(r.v[1], r.v[2][1], r.v[2][2], r.v[2][3],
                                                    r.v[2][4], r.v[2][5], r.v[2][6], r.v[2][7])>>
                ELSE <<"threw", NoResult>>

ContractOps == CalcOps \cup {"julianDayToDate"}

\* C27: given the same arguments and the same engine outputs (return code
\* and buffer contents), julianDayToDate, calculatePosition,
\* calculateHouses, findNextLunarEclipse and findNextSolarEclipse of the
\* bytecode-module gateway return the record the native gateway returns, or
\* raise where it raises.
C27_SameContract ==
    (call.gw = "browser" /\ call.phase = "call" /\ call.op \in ContractOps
         /\ EngineReached(call))
        => <<call.outcome, call.result>> = NativeOutcome(call)

\* The same statement without calculateHouses.
C27_SameContractButHouses ==
    (call.gw = "browser" /\ call.phase = "call" /\ call.op \in ContractOps \ {"calculateHouses"}
         /\ EngineReached(call))
        => <<call.outcome, call.result>> = NativeOutcome(call)

\* The native gateway itself.
C27_NativeIsNativeOutcome ==
    (call.gw = "node" /\ call.op \in ContractOps)
        => <<call.outcome, call.result>> = NativeOutcome(call)


(***************************************************************************)
(* Claims about the order of the heap operations of a call.                *)
(***************************************************************************)
ScratchAddrs(log) == {log[i].p : i \in Mallocs(log)}

\* C28: in every operation of the bytecode-module gateway, each read of a
\* scratch region (of output values, of the error text) comes after the
\* engine call and before the region is freed, and no region is read or
\* handed to the engine after it has been freed.
C28_ReadsBetweenCallAndFree ==
    call.gw = "browser"
        => /\ call.faults = {}
           /\ \A i \in DOMAIN call.log :
                  (call.log[i].e = "read" /\ call.log[i].p \in ScratchAddrs(call.log))
                      => /\ \E j \in 1..(i - 1) : call.log[j].e = "ccall"
                         /\ \A k \in 1..(i - 1) :
                                ~(call.log[k].e = "free" /\ call.log[k].p = call.log[i].p)
                         /\ \E k \in (i + 1)..Len(call.log) :
                                call.log[k].e = "free" /\ call.log[k].p = call.log[i].p
           /\ \A i \in DOMAIN call.log :
                  call.log[i].e = "ccall"
                      => \A k \in 1..(i - 1) :
                             ~(call.log[k].e = "free" /\ call.log[k].p \in ScratchAddrs(call.log))

\* A failing calculatePosition that read the error text and then freed.
C28_Witness ==
    /\ call.gw = "browser"
    /\ call.op = "calculatePosition"
    /\ call.outcome = "threw"
    /\ \E i \in DOMAIN call.log :
           /\ call.log[i].e = "read"
           /\ call.log[i].f = "UTF8ToString"
           /\ call.log[i].p \in ScratchAddrs(call.log)
           /\ \E k \in (i + 1)..Len(call.log) : call.log[k].e = "free" /\ call.log[k].p = call.log[i].p


\* C29: in the native gateway the 'ephemeris path set' flag never goes from
\* true back to false, whatever is called (close() included), and it goes
\* from false to true only in a setEphemerisPath call or in a
\* calculatePosition / eclipse-search call whose flags lack the Moshier bit.
C29_FlagMonotonic ==
    [][/\ ephemerisPathSet => ephemerisPathSet'
       /\ (~ephemerisPathSet /\ ephemerisPathSet')
              => /\ call'.gw = "node"
                 /\ \/ call'.op = "setEphemerisPath"
                    \/ FileBackedCalc(call')]_vars

\* The flag is still set right after a close().
C29_Witness ==
    /\ call.gw = "node"
    /\ call.op = "close"
    /\ ephemerisPathSet


\* An init() call has failed and none has completed.
InitFailedOnly == (\E i \in InitIds : inits[i] = "failed") /\ NoInitCompleted

\* C30: a failing init() (the module factory is not found, the import or
\* the instantiation rejects) leaves the instance as it was; while an init()
\* has failed and none has completed the instance is not ready, every
\* guarded operation fails with the not-initialized error, close() makes no
\* engine call, and a further init() starts the load again.
C30_FailedInitStaysNotReady ==
    /\ [][(call'.gw = "browser" /\ call'.op = "init" /\ call'.outcome = "threw")
              => UNCHANGED <<ready, module, inst, wrapCalls>>]_vars
    /\ [](InitFailedOnly =>
              /\ ~ready
              /\ module = 0
              /\ (call.gw = "browser" /\ call.phase = "call" /\ call.op \in GuardedOps)
                     => (call.outcome = "threw" /\ call.error = NotInitialized /\ call.log = <<>>)
              /\ (call.gw = "browser" /\ call.op = "close")
                     => (call.outcome = "returned" /\ call.log = <<>>))
    /\ [][(InitFailedOnly /\ call'.gw = "browser" /\ call'.op = "init" /\ call'.phase = "call")
              => /\ call'.outcome = "suspended"
                 /\ call'.log = <<Ev("import", 0, "./swisseph.js")>>
                 /\ \E i \in InitIds : inits[i] = "idle" /\ inits'[i] = "import"]_vars

\* After a failed init() a second one has started its import.
C30_Witness ==
    /\ inits[1] = "failed"
    /\ inits[2] = "import"
    /\ call.gw = "browser"
    /\ call.op = "init"
    /\ call.phase = "call"
    /\ ~ready

=============================================================================
